---- MODULE Spec2Model ----
(***************************************************************************)
(* Model of the pairing and duplicate-detection engine of                  *)
(* google-to-apple-photos: src/utils/image_utils.py (hashing,              *)
(* find_duplicates, remove_duplicates, find_matching_file_by_hash),        *)
(* src/utils/file_utils.py (get_base_filename) and                         *)
(* src/services/metadata_service.py (index_files, find_matching_file,      *)
(* find_metadata_pairs).                                                   *)
(*                                                                         *)
(* File names are sequences of one-character strings.  Both directories    *)
(* are flat, so a path is identified with its file name; a directory is    *)
(* the sequence of its entries in the order os.walk yields them.           *)
(***************************************************************************)
EXTENDS Integers, Sequences, FiniteSets, TLC

(***************************************************************************)
(* Characters and Python string primitives                                 *)
(***************************************************************************)
UpperChars == <<"A","B","C","D","E","F","G","H","I","J","K","L","M",
                "N","O","P","Q","R","S","T","U","V","W","X","Y","Z">>

LowerChars == <<"a","b","c","d","e","f","g","h","i","j","k","l","m",
                "n","o","p","q","r","s","t","u","v","w","x","y","z">>

Digits == {"0","1","2","3","4","5","6","7","8","9"}

\* ASCII order of the characters that occur in the modelled names
CharOrder == <<" ","(",")","-",".","0","1","2","3","4","5","6","7","8","9">>
             \o UpperChars \o <<"_">> \o LowerChars

CharCode(c) == CHOOSE i \in 1..Len(CharOrder) : CharOrder[i] = c

\* str.lower() on one character
LowerCh(c) ==
    IF \E i \in 1..26 : UpperChars[i] = c
    THEN LowerChars[CHOOSE i \in 1..26 : UpperChars[i] = c]
    ELSE c

\* str.lower()
Lower(s) == [i \in 1..Len(s) |-> LowerCh(s[i])]

\* s[a-1:b] of Python, 1-based inclusive bounds, empty when a > b
Slice(s, a, b) == IF a > b THEN <<>> ELSE SubSeq(s, a, b)

\* str.startswith / str.endswith / "x in s"
StartsWith(s, p) == Len(p) <= Len(s) /\ Slice(s, 1, Len(p)) = p

EndsWith(s, p) == Len(p) <= Len(s) /\ Slice(s, Len(s) - Len(p) + 1, Len(s)) = p

Contains(s, p) ==
    \E i \in 1..(Len(s) + 1) : i + Len(p) - 1 <= Len(s) /\ Slice(s, i, i + Len(p) - 1) = p

\* str.replace(old, ''): every non-overlapping occurrence, left to right
RECURSIVE RemoveAll(_, _)
RemoveAll(s, old) ==
    IF Len(old) = 0 \/ Len(s) < Len(old) THEN s
    ELSE IF StartsWith(s, old) THEN RemoveAll(Slice(s, Len(old) + 1, Len(s)), old)
    ELSE <<s[1]>> \o RemoveAll(Tail(s), old)

\* str.strip() (the modelled names hold no whitespace but the space)
RECURSIVE Strip(_)
Strip(s) ==
    IF Len(s) = 0 THEN s
    ELSE IF s[1] = " " THEN Strip(Tail(s))
    ELSE IF s[Len(s)] = " " THEN Strip(Slice(s, 1, Len(s) - 1))
    ELSE s

\* lexicographic str comparison a < b
RECURSIVE StrLess(_, _)
StrLess(a, b) ==
    IF Len(b) = 0 THEN FALSE
    ELSE IF Len(a) = 0 THEN TRUE
    ELSE IF a[1] = b[1] THEN StrLess(Tail(a), Tail(b))
    ELSE CharCode(a[1]) < CharCode(b[1])

\* positions of the last "." of s, 0 when there is none
LastDot(s) ==
    IF \E i \in 1..Len(s) : s[i] = "."
    THEN CHOOSE i \in 1..Len(s) : s[i] = "." /\ \A k \in (i + 1)..Len(s) : s[k] # "."
    ELSE 0

\* os.path.splitext: the extension starts at the last dot unless only dots
\* precede it
SplitExt(s) ==
    LET d == LastDot(s)
    IN IF d > 0 /\ \E k \in 1..(d - 1) : s[k] # "."
       THEN <<Slice(s, 1, d - 1), Slice(s, d, Len(s))>>
       ELSE <<s, <<>> >>

\* s ends with "(" digits ")" : the start of that group, else 0
TrailingNumberStart(s) ==
    IF \E i \in 1..Len(s) :
           /\ s[i] = "(" /\ s[Len(s)] = ")" /\ i + 1 <= Len(s) - 1
           /\ \A k \in (i + 1)..(Len(s) - 1) : s[k] \in Digits
    THEN CHOOSE i \in 1..Len(s) :
           /\ s[i] = "(" /\ s[Len(s)] = ")" /\ i + 1 <= Len(s) - 1
           /\ \A k \in (i + 1)..(Len(s) - 1) : s[k] \in Digits
    ELSE 0

RECURSIVE RStripSpace(_)
RStripSpace(s) ==
    IF Len(s) > 0 /\ s[Len(s)] = " " THEN RStripSpace(Slice(s, 1, Len(s) - 1)) ELSE s

\* variant: the blanks before the number stay
CleanName_KeepsBlanks(s) ==
    LET i == TrailingNumberStart(s)
    IN IF i = 0 THEN s ELSE Slice(s, 1, i - 1)

\* re.sub(r'\s*\(\d+\)$', '', s)
CleanName(s) ==
    LET i == TrailingNumberStart(s)
    IN IF i = 0 THEN s ELSE RStripSpace(Slice(s, 1, i - 1))

\* position i where r'(.+)(\(\d+\))(\..+)' can put the "(" of group 2
EditedAt(s, i) ==
    /\ i >= 2 /\ i <= Len(s) /\ s[i] = "("
    /\ \E j \in (i + 2)..Len(s) :
          /\ s[j] = ")"
          /\ \A k \in (i + 1)..(j - 1) : s[k] \in Digits
          /\ j + 2 <= Len(s)
          /\ s[j + 1] = "."

RECURSIVE StripExts(_)
StripExts(base) ==
    IF ~Contains(base, <<".">>) THEN base
    ELSE IF SplitExt(base)[1] = base THEN base  \* leading-dot names: the source loops forever
    ELSE StripExts(SplitExt(base)[1])

\* file_utils.get_base_filename on a file name
get_base_filename(filename) ==
    IF \E i \in 1..Len(filename) : EditedAt(filename, i)
    THEN LET i == CHOOSE k \in 1..Len(filename) :
                     EditedAt(filename, k) /\ \A m \in (k + 1)..Len(filename) : ~EditedAt(filename, m)
         IN Strip(Slice(filename, 1, i - 1))
    ELSE Strip(StripExts(SplitExt(filename)[1]))

(***************************************************************************)
(* Insertion-ordered dictionaries (Python dict): sequences of <<key, value>> *)
(***************************************************************************)
DictHas(d, k) == \E i \in 1..Len(d) : d[i][1] = k

DictGet(d, k) == d[CHOOSE i \in 1..Len(d) : d[i][1] = k][2]

\* d[k] = v : an existing key keeps its position
DictSet(d, k, v) ==
    IF DictHas(d, k)
    THEN [i \in 1..Len(d) |-> IF d[i][1] = k THEN <<k, v>> ELSE d[i]]
    ELSE Append(d, <<k, v>>)

DictKeys(d) == {d[i][1] : i \in 1..Len(d)}

SeqToSet(s) == {s[i] : i \in 1..Len(s)}

(***************************************************************************)
(* Media kinds, image_utils.py:24-39                                       *)
(***************************************************************************)
IMAGE_EXTENSIONS ==
    { <<".","j","p","g">>, <<".","j","p","e","g">>, <<".","p","n","g">>,
      <<".","h","e","i","c">>, <<".","h","e","i","f">>, <<".","t","i","f","f">>,
      <<".","t","i","f">>, <<".","b","m","p">>, <<".","g","i","f">> }

VIDEO_EXTENSIONS ==
    { <<".","m","p","4">>, <<".","m","o","v">>, <<".","a","v","i">>,
      <<".","m","k","v">>, <<".","w","m","v">>, <<".","m","4","v">>,
      <<".","3","g","p">> }

is_image_file(name) == Lower(SplitExt(name)[2]) \in IMAGE_EXTENSIONS

is_video_file(name) == Lower(SplitExt(name)[2]) \in VIDEO_EXTENSIONS

is_media_file(name) == is_image_file(name) \/ is_video_file(name)

(***************************************************************************)
(* Directories and file content                                            *)
(*   entry   = [name, content, mtime]                                      *)
(*   content = [size, head, tail, img, pix]: size in bytes, head the first *)
(*   1 KiB, tail the remaining bytes, img whether Pillow decodes the bytes *)
(*   as an image, pix the set of 1-bits of the perceptual hash of the      *)
(*   decoded picture.                                                      *)
(***************************************************************************)
DirNames(dir) == {dir[i].name : i \in 1..Len(dir)}

Exists(dir, n) == n \in DirNames(dir)

EntryOf(dir, n) == dir[CHOOSE i \in 1..Len(dir) : dir[i].name = n]

\* position of n in the walk order of dir
WalkPos(dir, n) == CHOOSE i \in 1..Len(dir) : dir[i].name = n

\* os.remove(n)
RemoveFile(dir, n) == SelectSeq(dir, LAMBDA e : e.name # n)

\* the media file paths os.walk yields, in walk order
RECURSIVE MediaNames(_)
MediaNames(dir) ==
    IF Len(dir) = 0 THEN <<>>
    ELSE IF is_media_file(dir[1].name) THEN <<dir[1].name>> \o MediaNames(Tail(dir))
    ELSE MediaNames(Tail(dir))

(***************************************************************************)
(* Signatures, image_utils.py:86-143, 197-266                              *)
(***************************************************************************)
\* imagehash.phash(img, hash_size=8): an 8 x 8 bit matrix
HashSize == 8

MaxDistance == HashSize * HashSize

NoneSig == [alg |-> "none", bits |-> {}, size |-> 0, head |-> 0]

\* str(imagehash.phash(...)): bare hexadecimal digits
PHashSig(c) == [alg |-> "phash", bits |-> c.pix, size |-> 0, head |-> 0]

\* md5(str(size) + first 1 KiB).hexdigest()
compute_file_hash(dir, n) ==
    IF ~Exists(dir, n) THEN NoneSig
    ELSE LET c == EntryOf(dir, n).content
         IN [alg |-> "md5", bits |-> {}, size |-> c.size, head |-> c.head]

compute_image_hash(dir, n, has) ==
    IF ~has THEN compute_file_hash(dir, n)
    ELSE IF ~is_image_file(n) THEN NoneSig
    ELSE IF Exists(dir, n) /\ EntryOf(dir, n).content.img
         THEN PHashSig(EntryOf(dir, n).content)
    ELSE compute_file_hash(dir, n)

\* compute_hash_for_file(file_path) called without a cache
compute_hash_for_file(dir, n, has) ==
    IF is_image_file(n) THEN compute_image_hash(dir, n, has)
    ELSE IF is_video_file(n) THEN compute_file_hash(dir, n)
    ELSE NoneSig

\* hash.startswith('0x'): neither str(phash) nor an md5 hexdigest holds an "x"
StartsWith0x(h) == h.alg = "0xhex"

HammingDistance(h1, h2) == Cardinality((h1.bits \ h2.bits) \cup (h2.bits \ h1.bits))

\* the side of the bit matrix imagehash.hex_to_hash makes of a string that
\* starts with '0x' (kept in the field size), HashSize for str(phash)
Shape(h) == IF h.alg = "0xhex" THEN h.size ELSE HashSize

\* variant: hashes of different shapes are subtracted without an error
GradedSimilarity_NoShapeCheck(h1, h2) ==
    MaxDistance - (HammingDistance(h1, h2) * MaxDistance) \div (Shape(h1) * Shape(h1))

\* image_utils.py:248-262: 1.0 - distance / max_distance in units of
\* 1/MaxDistance; h1 - h2 raises TypeError for hashes of different shapes
\* and the except clause returns 0.0
GradedSimilarity(h1, h2) ==
    IF Shape(h1) # Shape(h2) THEN 0
    ELSE MaxDistance - (HammingDistance(h1, h2) * MaxDistance) \div (Shape(h1) * Shape(h1))

\* hash_similarity, as the number of 1/MaxDistance units: 1.0 is MaxDistance
hash_similarity(h1, h2, has) ==
    IF h1 = NoneSig \/ h2 = NoneSig THEN 0
    ELSE IF h1 = h2 THEN MaxDistance
    ELSE IF has /\ StartsWith0x(h1) /\ StartsWith0x(h2)
         THEN GradedSimilarity(h1, h2)
    ELSE IF h1 = h2 THEN MaxDistance ELSE 0

\* similarity >= threshold, the threshold given in percent
SimAtLeast(sim, pct) == sim * 100 >= pct * MaxDistance

(***************************************************************************)
(* Hash cache file data/image_hashes.csv, image_utils.py:145-194           *)
(*   NoFile, or the sequence of the rows of the file                       *)
(***************************************************************************)
NoFile == << << <<"no file">> >> >>

\* the row ['file_path', 'hash_value'], in the shape of the other rows
CsvHeader == << <<"file_path">>, [alg |-> "hash_value", bits |-> {}, size |-> 0, head |-> 0] >>

RECURSIVE LoadRows(_, _)
LoadRows(rows, hashes) ==
    IF Len(rows) = 0 THEN hashes
    ELSE LoadRows(Tail(rows),
                  IF Len(rows[1]) >= 2 THEN DictSet(hashes, rows[1][1], rows[1][2]) ELSE hashes)

\* variant: the first record is skipped together with the header
load_image_hashes_SkipsRecord(file) ==
    IF file = NoFile \/ Len(file) <= 1 THEN <<>> ELSE LoadRows(Tail(Tail(file)), <<>>)

\* load_image_hashes: skips the header row, keeps rows of two fields or more
load_image_hashes(file) ==
    IF file = NoFile \/ Len(file) = 0 THEN <<>> ELSE LoadRows(Tail(file), <<>>)

\* save_image_hashes: rewrites the whole file, header first
save_image_hashes(hashes) == <<CsvHeader>> \o hashes

\* a line holding bytes that are not UTF-8, or that csv.reader rejects
BadBytes == << <<"undecodable bytes">> >>

\* position of the first such line of a file, 0 when there is none
FirstBad(file) ==
    IF file # NoFile /\ \E i \in 1..Len(file) : file[i] = BadBytes
    THEN CHOOSE i \in 1..Len(file) :
            file[i] = BadBytes /\ \A j \in 1..(i - 1) : file[j] # BadBytes
    ELSE 0

\* the numbers of lines the reader can have yielded when the error is
\* raised: the text layer decodes the file chunk by chunk, so the lines of
\* the chunks before the one with the bad bytes were read, however many
\* they are
ReadBeforeError(file) == 0..(FirstBad(file) - 1)

\* variant: the error is not caught
load_outcome_NoExcept(file, k) ==
    IF FirstBad(file) = 0 THEN [raised |-> FALSE, hashes |-> load_image_hashes(file)]
    ELSE [raised |-> TRUE, hashes |-> <<>>]

\* load_image_hashes on a file that may hold bad bytes, k of its lines
\* being read before the error: lines 157-169, the except clause logs the
\* error and the entries stored so far are returned
load_outcome(file, k) ==
    IF FirstBad(file) = 0 THEN [raised |-> FALSE, hashes |-> load_image_hashes(file)]
    ELSE [raised |-> FALSE, hashes |-> load_image_hashes(Slice(file, 1, k))]

(***************************************************************************)
(* find_duplicates, image_utils.py:447-609                                 *)
(*   The returned dict is a sequence of <<original, duplicates>> in        *)
(*   insertion order.                                                      *)
(***************************************************************************)
\* lines 482-508: hash every media file that has no cache entry; a falsy
\* hash is not stored
RECURSIVE HashMissing(_, _, _, _)
HashMissing(dir, names, hashes, has) ==
    IF Len(names) = 0 THEN hashes
    ELSE LET n == names[1]
             h == compute_hash_for_file(dir, n, has)
         IN HashMissing(dir, Tail(names),
                        IF ~DictHas(hashes, n) /\ h # NoneSig THEN DictSet(hashes, n, h) ELSE hashes,
                        has)

FilesToHash(names, hashes) == SelectSeq(names, LAMBDA n : ~DictHas(hashes, n))

\* line 527: size_key = file_size // (1024 * 10)
SizeKey(dir, n) == EntryOf(dir, n).content.size \div (1024 * 10)

\* the distinct values of K(n), n in names, in order of first appearance
RECURSIVE FirstSeen(_, _)
FirstSeen(keys, seen) ==
    IF Len(keys) = 0 THEN seen
    ELSE FirstSeen(Tail(keys),
                   IF \E i \in 1..Len(seen) : seen[i] = keys[1] THEN seen ELSE Append(seen, keys[1]))

\* lines 522-533: the size groups of more than one file, in dict order
SizeGroups(dir, names) ==
    LET keys   == FirstSeen([i \in 1..Len(names) |-> SizeKey(dir, names[i])], <<>>)
        groups == [i \in 1..Len(keys) |->
                      SelectSeq(names, LAMBDA n : SizeKey(dir, n) = keys[i])]
    IN SelectSeq(groups, LAMBDA g : Len(g) > 1)

\* lines 539-542: the hash groups of one size group, in dict order
HashGroups(files, hashes) ==
    LET hashed == SelectSeq(files, LAMBDA n : DictHas(hashes, n) /\ DictGet(hashes, n) # NoneSig)
        keys   == FirstSeen([i \in 1..Len(hashed) |-> DictGet(hashes, hashed[i])], <<>>)
    IN [i \in 1..Len(keys) |->
           <<keys[i], SelectSeq(hashed, LAMBDA n : DictGet(hashes, n) = keys[i])>>]

\* variant: a sort that puts a file before the files of equal mtime
RECURSIVE InsertByMtime_Unstable(_, _, _)
InsertByMtime_Unstable(dir, sorted, n) ==
    IF Len(sorted) = 0 THEN <<n>>
    ELSE IF EntryOf(dir, n).mtime <= EntryOf(dir, sorted[1]).mtime THEN <<n>> \o sorted
    ELSE <<sorted[1]>> \o InsertByMtime_Unstable(dir, Tail(sorted), n)

\* list.sort(key=os.path.getmtime): a stable sort
RECURSIVE InsertByMtime(_, _, _)
InsertByMtime(dir, sorted, n) ==
    IF Len(sorted) = 0 THEN <<n>>
    ELSE IF EntryOf(dir, n).mtime < EntryOf(dir, sorted[1]).mtime THEN <<n>> \o sorted
    ELSE <<sorted[1]>> \o InsertByMtime(dir, Tail(sorted), n)

RECURSIVE SortByMtime(_, _)
SortByMtime(dir, names) ==
    IF Len(names) = 0 THEN <<>>
    ELSE InsertByMtime(dir, SortByMtime(dir, Slice(names, 1, Len(names) - 1)), names[Len(names)])

\* duplicates[original] gets the files appended, the key created when absent
AddDuplicates(dups, original, files) ==
    IF DictHas(dups, original)
    THEN DictSet(dups, original, DictGet(dups, original) \o files)
    ELSE Append(dups, <<original, files>>)

\* any(f in dups for dups in duplicates.values())
MarkedDuplicate(dups, f) == \E i \in 1..Len(dups) : f \in SeqToSet(dups[i][2])

\* variant: only hash groups of more than two files become a group
RECURSIVE ExactMatches_MinThree(_, _, _)
ExactMatches_MinThree(dir, hgroups, dups) ==
    IF Len(hgroups) = 0 THEN dups
    ELSE LET paths == SortByMtime(dir, hgroups[1][2])
         IN ExactMatches_MinThree(dir, Tail(hgroups),
                                  IF Len(paths) > 2
                                  THEN AddDuplicates(dups, paths[1], Tail(paths))
                                  ELSE dups)

\* lines 545-552: every hash group of more than one file becomes a group
RECURSIVE ExactMatches(_, _, _)
ExactMatches(dir, hgroups, dups) ==
    IF Len(hgroups) = 0 THEN dups
    ELSE LET paths == SortByMtime(dir, hgroups[1][2])
         IN ExactMatches(dir, Tail(hgroups),
                         IF Len(paths) > 1
                         THEN AddDuplicates(dups, paths[1], Tail(paths))
                         ELSE dups)

\* lines 557-558: the image files that are alone in their hash group
HashItems(hgroups) ==
    LET singles == SelectSeq(hgroups, LAMBDA g : Len(g[2]) = 1 /\ is_image_file(g[2][1]))
    IN [i \in 1..Len(singles) |-> <<singles[i][1], singles[i][2][1]>>]

\* lines 572-592: the inner loop over j for a fixed i
RECURSIVE CompareInner(_, _, _, _, _, _, _)
CompareInner(dir, items, i, j, dups, thr, has) ==
    IF j > Len(items) THEN dups
    ELSE LET file1 == items[i][2]
             file2 == items[j][2]
             older2 == EntryOf(dir, file2).mtime < EntryOf(dir, file1).mtime
             original  == IF older2 THEN file2 ELSE file1
             duplicate == IF older2 THEN file1 ELSE file2
         IN IF MarkedDuplicate(dups, file2)
            THEN CompareInner(dir, items, i, j + 1, dups, thr, has)
            ELSE IF SimAtLeast(hash_similarity(items[i][1], items[j][1], has), thr)
            THEN CompareInner(dir, items, i, j + 1,
                              AddDuplicates(dups, original, <<duplicate>>), thr, has)
            ELSE CompareInner(dir, items, i, j + 1, dups, thr, has)

\* lines 565-570: the outer loop over i
RECURSIVE CompareOuter(_, _, _, _, _, _)
CompareOuter(dir, items, i, dups, thr, has) ==
    IF i > Len(items) THEN dups
    ELSE IF MarkedDuplicate(dups, items[i][2])
    THEN CompareOuter(dir, items, i + 1, dups, thr, has)
    ELSE CompareOuter(dir, items, i + 1,
                      CompareInner(dir, items, i, i + 1, dups, thr, has), thr, has)

\* lines 537-592: one size group after the other
RECURSIVE ProcessGroups(_, _, _, _, _, _)
ProcessGroups(dir, sgroups, hashes, dups, thr, has) ==
    IF Len(sgroups) = 0 THEN dups
    ELSE LET hgroups == HashGroups(sgroups[1], hashes)
             exact   == ExactMatches(dir, hgroups, dups)
             items   == HashItems(hgroups)
         IN ProcessGroups(dir, Tail(sgroups), hashes,
                          IF has /\ Len(items) > 1
                          THEN CompareOuter(dir, items, 1, exact, thr, has)
                          ELSE exact,
                          thr, has)

\* the hash cache find_duplicates works with after its hashing phase
HashCacheAfter(dir, file, has) ==
    HashMissing(dir, MediaNames(dir), load_image_hashes(file), has)

\* the cache file find_duplicates leaves: rewritten only when a file was hashed
CacheFileAfter(dir, file, has) ==
    IF Len(FilesToHash(MediaNames(dir), load_image_hashes(file))) > 0
    THEN save_image_hashes(HashCacheAfter(dir, file, has))
    ELSE file

\* the dict find_duplicates(directory, similarity_threshold) returns
find_duplicates(dir, file, thr, has) ==
    ProcessGroups(dir, SizeGroups(dir, MediaNames(dir)), HashCacheAfter(dir, file, has),
                  <<>>, thr, has)

(***************************************************************************)
(* remove_duplicates(duplicates, dry_run, force_remove_numbered),          *)
(* image_utils.py:902-1019.  The state threaded through the loops is       *)
(* [dir, removed].                                                         *)
(***************************************************************************)
\* lines 930-954: the duplicates of one original
RECURSIVE RemoveIdentical(_, _, _, _)
RemoveIdentical(st, original, files, dry_run) ==
    IF Len(files) = 0 THEN st
    ELSE LET d == files[1]
             same == /\ Exists(st.dir, d)
                     /\ compute_file_hash(st.dir, d) # NoneSig
                     /\ compute_file_hash(st.dir, original) = compute_file_hash(st.dir, d)
         IN RemoveIdentical(
                IF same
                THEN [dir |-> IF dry_run THEN st.dir ELSE RemoveFile(st.dir, d),
                      removed |-> st.removed + 1]
                ELSE st,
                original, Tail(files), dry_run)

\* lines 919-954: first pass, the orig_hash is taken once per original
RECURSIVE FirstPass(_, _, _)
FirstPass(st, dups, dry_run) ==
    IF Len(dups) = 0 THEN st
    ELSE FirstPass(
             IF Exists(st.dir, dups[1][1])
             THEN RemoveIdentical(st, dups[1][1], dups[1][2], dry_run)
             ELSE st,
             Tail(dups), dry_run)

\* base_name.split(' (')[0]
BeforeSpaceParen(s) ==
    IF Contains(s, <<" ", "(">>)
    THEN LET i == CHOOSE k \in 1..Len(s) :
                     /\ k + 1 <= Len(s) /\ s[k] = " " /\ s[k + 1] = "("
                     /\ \A m \in 1..(k - 1) : ~(s[m] = " " /\ s[m + 1] = "(")
         IN Slice(s, 1, i - 1)
    ELSE s

\* lines 969-972
NumberedGroupKey(n) == BeforeSpaceParen(get_base_filename(n))

\* lines 989-996
ExtPriority(ext) ==
    CASE ext = <<".","h","e","i","c">> -> 1
      [] ext = <<".","j","p","g">> -> 2
      [] ext = <<".","j","p","e","g">> -> 2
      [] ext = <<".","p","n","g">> -> 3
      [] ext = <<".","m","o","v">> -> 1
      [] ext = <<".","m","p","4">> -> 2
      [] OTHER -> 10

\* lines 984-1001: sort_key(a) < sort_key(b) on (has_number, ext_priority)
SortKeyLess(a, b) ==
    LET numA == Contains(a, <<" ", "(">>)
        numB == Contains(b, <<" ", "(">>)
        priA == ExtPriority(Lower(SplitExt(a)[2]))
        priB == ExtPriority(Lower(SplitExt(b)[2]))
    IN \/ ~numA /\ numB
       \/ numA = numB /\ priA < priB

RECURSIVE InsertBySortKey(_, _)
InsertBySortKey(sorted, n) ==
    IF Len(sorted) = 0 THEN <<n>>
    ELSE IF SortKeyLess(n, sorted[1]) THEN <<n>> \o sorted
    ELSE <<sorted[1]>> \o InsertBySortKey(Tail(sorted), n)

\* files.sort(key=sort_key): a stable sort
RECURSIVE SortBySortKey(_)
SortBySortKey(names) ==
    IF Len(names) = 0 THEN <<>>
    ELSE InsertBySortKey(SortBySortKey(Slice(names, 1, Len(names) - 1)), names[Len(names)])

RECURSIVE RemoveAllOf(_, _, _)
RemoveAllOf(st, files, dry_run) ==
    IF Len(files) = 0 THEN st
    ELSE RemoveAllOf([dir |-> IF dry_run THEN st.dir ELSE RemoveFile(st.dir, files[1]),
                      removed |-> st.removed + 1],
                     Tail(files), dry_run)

\* lines 979-1017: keep the first file of every group of several files
RECURSIVE RemoveNumbered(_, _, _)
RemoveNumbered(st, groups, dry_run) ==
    IF Len(groups) = 0 THEN st
    ELSE RemoveNumbered(
             IF Len(groups[1]) > 1
             THEN RemoveAllOf(st, Tail(SortBySortKey(groups[1])), dry_run)
             ELSE st,
             Tail(groups), dry_run)

\* lines 957-1017: second pass over the media files left in the directory
SecondPass(st, dry_run) ==
    LET names  == MediaNames(st.dir)
        keys   == FirstSeen([i \in 1..Len(names) |-> NumberedGroupKey(names[i])], <<>>)
        groups == [i \in 1..Len(keys) |->
                      SelectSeq(names, LAMBDA n : NumberedGroupKey(n) = keys[i])]
    IN RemoveNumbered(st, groups, dry_run)

\* with an empty dict the second pass reads the unbound loop variable
\* "original" and raises, after the first pass removed nothing
remove_duplicates(dir, dups, dry_run, force_remove_numbered) ==
    LET first == FirstPass([dir |-> dir, removed |-> 0], dups, dry_run)
    IN IF force_remove_numbered /\ Len(dups) > 0 THEN SecondPass(first, dry_run) ELSE first

(***************************************************************************)
(* Name dictionary and file list of find_metadata_pairs,                   *)
(* metadata_service.py:553-573                                             *)
(***************************************************************************)
\* variant: the key without the " (N)" suffix is not added
NewFilesDictAdd_NoCleanKey(d, file) ==
    DictSet(d, Lower(SplitExt(file)[1]), file)

\* lines 566-573: new_files_dict[base_name] = file_path, and the same under
\* the name without a trailing " (N)"; a later file overwrites the entry
NewFilesDictAdd(d, file) ==
    LET base_name  == Lower(SplitExt(file)[1])
        clean_name == CleanName(base_name)
        d1         == DictSet(d, base_name, file)
    IN IF clean_name # base_name THEN DictSet(d1, clean_name, file) ELSE d1

RECURSIVE BuildNewFilesDict(_, _)
BuildNewFilesDict(names, d) ==
    IF Len(names) = 0 THEN d
    ELSE BuildNewFilesDict(Tail(names), NewFilesDictAdd(d, names[1]))

(***************************************************************************)
(* MetadataService.index_files and find_matching_file,                     *)
(* metadata_service.py:114-261.  indexed_files maps a key to the list of   *)
(* the paths stored under it.                                              *)
(***************************************************************************)
IndexAdd(idx, key, path) ==
    IF DictHas(idx, key) THEN DictSet(idx, key, Append(DictGet(idx, key), path))
    ELSE Append(idx, <<key, <<path>> >>)

\* lines 168-189, the sequential path taken below 1000 files
RECURSIVE IndexMedia(_, _)
IndexMedia(names, idx) ==
    IF Len(names) = 0 THEN idx
    ELSE LET filename        == names[1]
             base_name_lower == Lower(get_base_filename(filename))
             filename_lower  == Lower(SplitExt(filename)[1])
             clean_name      == CleanName(base_name_lower)
             i1 == IndexAdd(idx, base_name_lower, filename)
             i2 == IndexAdd(i1, filename_lower, filename)
             i3 == IF clean_name # base_name_lower THEN IndexAdd(i2, clean_name, filename) ELSE i2
         IN IndexMedia(Tail(names), i3)

\* lines 124-197: the index of a directory indexed before is returned
\* as it was stored
index_files(dir, stored, indexed) ==
    IF indexed THEN stored ELSE IndexMedia(MediaNames(dir), <<>>)

\* os.path.join(root, filename) for a file of the directory named directory
JoinPath(directory, filename) == <<directory, "/">> \o filename

\* index_files(directory) of a process that holds the index stored and has
\* indexed the directories of indexed; dir is the listing of directory and
\* the paths of the index start with the directory (lines 123-124, 138, 192-196)
index_files_of(directory, dir, stored, indexed) ==
    IF directory \in indexed THEN stored
    ELSE LET idx == index_files(dir, <<>>, FALSE)
         IN [i \in 1..Len(idx) |->
                <<idx[i][1], [j \in 1..Len(idx[i][2]) |-> JoinPath(directory, idx[i][2][j])]>>]

SupplementalMetadataJson ==
    <<".","s","u","p","p","l","e","m","e","n","t","a","l","-",
      "m","e","t","a","d","a","t","a",".","j","s","o","n">>

SupplementalMetaJson ==
    <<".","s","u","p","p","l","e","m","e","n","t","a","l","-",
      "m","e","t","a",".","j","s","o","n">>

DotJson == <<".","j","s","o","n">>

\* lines 251-253: the first key, in insertion order, that is a prefix of
\* the name or has the name as a prefix
PartialMatch(idx, name) ==
    LET hit(i) == /\ (StartsWith(idx[i][1], name) \/ StartsWith(name, idx[i][1]))
                  /\ Len(idx[i][2]) > 0
    IN IF \E i \in 1..Len(idx) : hit(i)
       THEN <<idx[CHOOSE i \in 1..Len(idx) : hit(i) /\ \A k \in 1..(i - 1) : ~hit(k)][2][1]>>
       ELSE <<>>

\* lines 227-257 on the index: <<path>> of the match, <<>> for None
find_matching_file(json_filename, idx) ==
    IF ~EndsWith(json_filename, DotJson) THEN <<>>
    ELSE LET base_name == IF EndsWith(json_filename, SupplementalMetadataJson)
                          THEN RemoveAll(json_filename, SupplementalMetadataJson)
                          ELSE get_base_filename(json_filename)
             base_name_lower == Lower(base_name)
             clean_name      == CleanName(base_name_lower)
         IN IF DictHas(idx, base_name_lower) /\ Len(DictGet(idx, base_name_lower)) > 0
            THEN <<DictGet(idx, base_name_lower)[1]>>
            ELSE IF /\ clean_name # base_name_lower
                    /\ DictHas(idx, clean_name) /\ Len(DictGet(idx, clean_name)) > 0
            THEN <<DictGet(idx, clean_name)[1]>>
            ELSE PartialMatch(idx, base_name_lower)

(***************************************************************************)
(* find_matching_file_by_hash, image_utils.py:804-900.  _file_hash_cache   *)
(* maps [root, name] to a signature, NoneSig for a stored None.            *)
(***************************************************************************)
OldPath(n) == [root |-> "old_dir", name |-> n]

NewPath(n) == [root |-> "new_dir", name |-> n]

\* variant: only a target with the whole name of the source is returned
SameNameTarget_NameOnly(source, file_list) ==
    IF \E i \in 1..Len(file_list) : file_list[i] = source THEN <<source>> ELSE <<>>

\* lines 829-838: the first target with the name, or the stem, of the source
SameNameTarget(source, file_list) ==
    LET hit(i) == \/ file_list[i] = source
                  \/ SplitExt(file_list[i])[1] = SplitExt(source)[1]
    IN IF \E i \in 1..Len(file_list) : hit(i)
       THEN <<file_list[CHOOSE i \in 1..Len(file_list) : hit(i) /\ \A k \in 1..(i - 1) : ~hit(k)]>>
       ELSE <<>>

\* lines 870-881: hash the targets that have no entry yet
RECURSIVE HashTargets(_, _, _, _)
HashTargets(dir, file_list, cache, has) ==
    IF Len(file_list) = 0 THEN cache
    ELSE HashTargets(dir, Tail(file_list),
                     IF DictHas(cache, NewPath(file_list[1])) THEN cache
                     ELSE DictSet(cache, NewPath(file_list[1]),
                                  compute_hash_for_file(dir, file_list[1], has)),
                     has)

\* variant: the threshold test is dropped
BestMatch_AnyTarget(file_list, i, source_hash, cache, thr, has, best) ==
    IF Len(file_list) = 0 THEN <<>> ELSE <<file_list[1]>>

\* lines 884-895: the comparison loop from target i on; best is
\* <<best_match, best_similarity>>
RECURSIVE BestMatch(_, _, _, _, _, _, _)
BestMatch(file_list, i, source_hash, cache, thr, has, best) ==
    IF i > Len(file_list) THEN best[1]
    ELSE LET target_hash == DictGet(cache, NewPath(file_list[i]))
             sim         == hash_similarity(source_hash, target_hash, has)
         IN IF target_hash # NoneSig /\ SimAtLeast(sim, thr) /\ sim > best[2]
            THEN IF SimAtLeast(sim, 99) THEN <<file_list[i]>>
                 ELSE BestMatch(file_list, i + 1, source_hash, cache, thr, has,
                                <<<<file_list[i]>>, sim>>)
            ELSE BestMatch(file_list, i + 1, source_hash, cache, thr, has, best)

\* the cache after the call: the source's entry, then the targets' entries
\* unless the call returned before hashing them
HashCacheAfterMatch(old, new, source, file_list, cache, has) ==
    IF SameNameTarget(source, file_list) # <<>> THEN cache
    ELSE LET c1 == IF DictHas(cache, OldPath(source)) THEN cache
                   ELSE DictSet(cache, OldPath(source), compute_hash_for_file(old, source, has))
         IN IF DictGet(c1, OldPath(source)) = NoneSig THEN c1
            ELSE HashTargets(new, file_list, c1, has)

\* the returned path: <<path>>, or <<>> for None
find_matching_file_by_hash(old, new, source, file_list, cache, thr, has) ==
    IF ~Exists(old, source) THEN <<>>
    ELSE IF SameNameTarget(source, file_list) # <<>> THEN SameNameTarget(source, file_list)
    ELSE LET after       == HashCacheAfterMatch(old, new, source, file_list, cache, has)
             source_hash == DictGet(after, OldPath(source))
         IN IF source_hash = NoneSig THEN <<>>
            ELSE BestMatch(file_list, 1, source_hash, after, thr, has, <<<<>>, 0>>)

(***************************************************************************)
(* file_utils.find_matching_file and _try_find_match,                      *)
(* file_utils.py:234-338.  The target directory is the sequence of its     *)
(* file names in the order os.listdir returns them.  A result is <<>> for  *)
(* None, or <<[file, how, name]>>: the file returned, the check of the     *)
(* source that returned it and the candidate name that check was given.    *)
(***************************************************************************)
IsAlnum(c) ==
    \/ c \in Digits
    \/ \E i \in 1..26 : UpperChars[i] = c \/ LowerChars[i] = c

\* re.sub(r'[^a-zA-Z0-9]', '', s.lower())
CleanAlnum(s) == SelectSeq(Lower(s), IsAlnum)

prefixes_to_remove == << <<"I","M","G","_">>, <<"V","I","D","_">>,
                         <<"i","m","a","g","e","_">>, <<"v","i","d","e","o","_">> >>

AppleExtensions == << <<".","j","p","g">>, <<".","j","p","e","g">>, <<".","p","n","g">>,
                      <<".","m","p","4">>, <<".","m","o","v">>, <<".","h","e","i","c">>,
                      <<".","g","i","f">> >>

ExactExtensions ==
    AppleExtensions \o
    << <<".","J","P","G">>, <<".","J","P","E","G">>, <<".","P","N","G">>,
       <<".","M","P","4">>, <<".","M","O","V">>, <<".","H","E","I","C">>,
       <<".","G","I","F">> >>

IMG_E == <<"I","M","G","_","E">>

VID_E == <<"V","I","D","_","E">>

\* the first name of the sequence cands that exists in the directory
FirstExisting(cands, files) ==
    IF \E i \in 1..Len(cands) : \E k \in 1..Len(files) : files[k] = cands[i]
    THEN LET i == CHOOSE i \in 1..Len(cands) :
                     /\ \E k \in 1..Len(files) : files[k] = cands[i]
                     /\ \A j \in 1..(i - 1) : \A k \in 1..Len(files) : files[k] # cands[j]
         IN <<cands[i]>>
    ELSE <<>>

\* the first file of the listing that satisfies Test
FirstFile(files, Test(_)) ==
    IF \E k \in 1..Len(files) : Test(files[k])
    THEN <<files[CHOOSE k \in 1..Len(files) :
                    Test(files[k]) /\ \A j \in 1..(k - 1) : ~Test(files[j])]>>
    ELSE <<>>

\* file_utils.py:273-276
ExactCandidates(base_name) ==
    [i \in 1..Len(ExactExtensions) |-> base_name \o ExactExtensions[i]]

\* file_utils.py:279-284
AppleStem(base_name) ==
    IF StartsWith(base_name, <<"I","M","G","_">>) \/ StartsWith(base_name, <<"V","I","D","_">>)
    THEN Slice(base_name, 5, Len(base_name))
    ELSE base_name

AppleCandidates(base_name) ==
    IF StartsWith(base_name, IMG_E) \/ StartsWith(base_name, VID_E) THEN <<>>
    ELSE [i \in 1..(2 * Len(AppleExtensions)) |->
            (IF i <= Len(AppleExtensions) THEN IMG_E ELSE VID_E)
            \o AppleStem(base_name)
            \o AppleExtensions[((i - 1) % Len(AppleExtensions)) + 1]]

\* re.search(r'\d{4,}', s).group(), <<>> when there is no match
DigitRun(s) ==
    LET Starts(i) == i + 3 <= Len(s) /\ \A k \in i..(i + 3) : s[k] \in Digits
    IN IF \E i \in 1..Len(s) : Starts(i)
       THEN LET i == CHOOSE i \in 1..Len(s) : Starts(i) /\ \A j \in 1..(i - 1) : ~Starts(j)
                e == CHOOSE e \in i..Len(s) :
                        /\ \A k \in i..e : s[k] \in Digits
                        /\ (e = Len(s) \/ s[e + 1] \notin Digits)
            IN Slice(s, i, e)
       ELSE <<>>

Min2(a, b) == IF a <= b THEN a ELSE b

\* sum(1 for a, b in zip(x, y) if a == b)
MatchingChars(x, y) == Cardinality({i \in 1..Min2(Len(x), Len(y)) : x[i] = y[i]})

\* file_utils.py:296-298
SameBase(base_name, file) == Lower(get_base_filename(file)) = Lower(base_name)

\* file_utils.py:301-310
RawContainment(base_name, file) ==
    LET file_base == get_base_filename(file)
    IN /\ Len(file_base) >= 3
       /\ \/ Contains(Lower(file_base), Lower(base_name))
          \/ Contains(Lower(base_name), Lower(file_base))

\* file_utils.py:322-323
CleanContainment(base_name, file) ==
    LET c == CleanAlnum(get_base_filename(file))
        b == CleanAlnum(base_name)
    IN Contains(b, c) \/ Contains(c, b)

\* file_utils.py:326-329
NumericSequence(base_name, file) ==
    /\ DigitRun(base_name) # <<>>
    /\ DigitRun(base_name) = DigitRun(get_base_filename(file))

\* file_utils.py:332-336
Approximate(base_name, file) ==
    LET c == CleanAlnum(get_base_filename(file))
        b == CleanAlnum(base_name)
        min_len == Min2(Len(c), Len(b))
    IN /\ Len(c) - Len(b) <= 3 /\ Len(b) - Len(c) <= 3
       /\ min_len > 0
       /\ 10 * MatchingChars(c, b) >= 7 * min_len

\* variant: the third pass does not skip short file names
ThirdPass_NoShortGuard(base_name, file) ==
    \/ CleanContainment(base_name, file)
    \/ NumericSequence(base_name, file)
    \/ Approximate(base_name, file)

\* file_utils.py:313-336, the body of the third loop for one file
ThirdPass(base_name, file) ==
    /\ Len(CleanAlnum(get_base_filename(file))) >= 3
    /\ \/ CleanContainment(base_name, file)
       \/ NumericSequence(base_name, file)
       \/ Approximate(base_name, file)

\* which of the three checks of the third loop returns the file
ThirdPassHow(base_name, file) ==
    IF CleanContainment(base_name, file) THEN "containment_clean"
    ELSE IF NumericSequence(base_name, file) THEN "numeric"
    ELSE "approximate"

Found(file, how, name) == <<[file |-> file, how |-> how, name |-> name]>>

\* variant: the third loop is tried before the loop of raw containment
try_find_match_ThirdFirst(base_name, files) ==
    LET SB(f) == SameBase(base_name, f)
        RC(f) == RawContainment(base_name, f)
        TP(f) == ThirdPass(base_name, f)
        exact == FirstExisting(ExactCandidates(base_name), files)
        apple == FirstExisting(AppleCandidates(base_name), files)
    IN IF Len(CleanAlnum(base_name)) < 3 THEN <<>>
       ELSE IF exact # <<>> THEN Found(exact[1], "exact", base_name)
       ELSE IF apple # <<>> THEN Found(apple[1], "edited", base_name)
       ELSE IF FirstFile(files, SB) # <<>>
            THEN Found(FirstFile(files, SB)[1], "exact_ci", base_name)
       ELSE IF FirstFile(files, TP) # <<>>
            THEN Found(FirstFile(files, TP)[1],
                       ThirdPassHow(base_name, FirstFile(files, TP)[1]), base_name)
       ELSE IF FirstFile(files, RC) # <<>>
            THEN Found(FirstFile(files, RC)[1], "containment", base_name)
       ELSE <<>>

\* file_utils._try_find_match
try_find_match(base_name, files) ==
    LET SB(f) == SameBase(base_name, f)
        RC(f) == RawContainment(base_name, f)
        TP(f) == ThirdPass(base_name, f)
        exact == FirstExisting(ExactCandidates(base_name), files)
        apple == FirstExisting(AppleCandidates(base_name), files)
    IN IF Len(CleanAlnum(base_name)) < 3 THEN <<>>
       ELSE IF exact # <<>> THEN Found(exact[1], "exact", base_name)
       ELSE IF apple # <<>> THEN Found(apple[1], "edited", base_name)
       ELSE IF FirstFile(files, SB) # <<>>
            THEN Found(FirstFile(files, SB)[1], "exact_ci", base_name)
       ELSE IF FirstFile(files, RC) # <<>>
            THEN Found(FirstFile(files, RC)[1], "containment", base_name)
       ELSE IF FirstFile(files, TP) # <<>>
            THEN Found(FirstFile(files, TP)[1],
                       ThirdPassHow(base_name, FirstFile(files, TP)[1]), base_name)
       ELSE <<>>

\* the candidate without the first of prefixes_to_remove it starts with,
\* <<>> when it starts with none
WithoutPrefix(base_name) ==
    IF \E i \in 1..Len(prefixes_to_remove) : StartsWith(base_name, prefixes_to_remove[i])
    THEN LET i == CHOOSE i \in 1..Len(prefixes_to_remove) :
                     /\ StartsWith(base_name, prefixes_to_remove[i])
                     /\ \A j \in 1..(i - 1) : ~StartsWith(base_name, prefixes_to_remove[j])
         IN <<Slice(base_name, Len(prefixes_to_remove[i]) + 1, Len(base_name))>>
    ELSE <<>>

\* file_utils.find_matching_file(base_name, target_dir)
fu_find_matching_file(base_name, files) ==
    LET np == WithoutPrefix(base_name)
    IN IF np # <<>> /\ try_find_match(np[1], files) # <<>>
       THEN try_find_match(np[1], files)
       ELSE try_find_match(base_name, files)

(***************************************************************************)
(* CopyService.copy_missing_files, copy_service.py:115-233.  It keeps the  *)
(* signatures of both directories in data/image_hashes.csv under keys      *)
(* that start with 'old:' and 'new:'.                                      *)
(***************************************************************************)
OldPrefix == <<"o","l","d",":">>

NewPrefix == <<"n","e","w",":">>

\* {k[4:]: v for k, v in hash_cache.items() if k.startswith(prefix)}
WithPrefixStripped(hashes, prefix) ==
    LET kept == SelectSeq(hashes, LAMBDA e : StartsWith(e[1], prefix))
    IN [i \in 1..Len(kept) |-> <<Slice(kept[i][1], Len(prefix) + 1, Len(kept[i][1])), kept[i][2]>>]

\* {f'{prefix}{k}': v for k, v in cache.items()}
Prefixed(cache, prefix) == [i \in 1..Len(cache) |-> <<prefix \o cache[i][1], cache[i][2]>>]

\* compute_hash_for_file(file_path, hash_cache), image_utils.py:197-227: the
\* returned signature
CachedHash(dir, n, cache, has) ==
    IF DictHas(cache, n) THEN DictGet(cache, n) ELSE compute_hash_for_file(dir, n, has)

\* the cache it leaves: a computed signature is stored unless it is None
CacheWith(dir, n, cache, has) ==
    IF DictHas(cache, n) \/ compute_hash_for_file(dir, n, has) = NoneSig THEN cache
    ELSE DictSet(cache, n, compute_hash_for_file(dir, n, has))

\* lines 172-176 and 192-194: the cache after the loop over the files
RECURSIVE CacheAfterFiles(_, _, _, _)
CacheAfterFiles(dir, names, cache, has) ==
    IF Len(names) = 0 THEN cache
    ELSE CacheAfterFiles(dir, Tail(names), CacheWith(dir, names[1], cache, has), has)

\* lines 171-176: new_file_hashes, signature -> path
RECURSIVE NewFileHashes(_, _, _, _, _)
NewFileHashes(dir, names, cache, has, found) ==
    IF Len(names) = 0 THEN found
    ELSE LET h == CachedHash(dir, names[1], cache, has)
         IN NewFileHashes(dir, Tail(names), CacheWith(dir, names[1], cache, has), has,
                          IF h = NoneSig THEN found ELSE DictSet(found, h, names[1]))

\* lines 144-148: the media files of old_dir that are no .json files
OldMediaNames(dir) == SelectSeq(MediaNames(dir), LAMBDA n : ~EndsWith(n, DotJson))

\* lines 190-198: the files of old_dir whose signature no new file has
RECURSIVE MissingFiles(_, _, _, _, _)
MissingFiles(dir, names, cache, has, found) ==
    IF Len(names) = 0 THEN <<>>
    ELSE LET h == CachedHash(dir, names[1], cache, has)
         IN (IF h = NoneSig \/ ~DictHas(found, h) THEN <<names[1]>> ELSE <<>>)
            \o MissingFiles(dir, Tail(names), CacheWith(dir, names[1], cache, has), has, found)

\* the cache file after line 207
CopyCacheFileAfter(old, new, file, has) ==
    LET hash_cache     == load_image_hashes(file)
        old_hash_cache == CacheAfterFiles(old, OldMediaNames(old),
                                          WithPrefixStripped(hash_cache, OldPrefix), has)
        new_hash_cache == CacheAfterFiles(new, MediaNames(new),
                                          WithPrefixStripped(hash_cache, NewPrefix), has)
    IN save_image_hashes(Prefixed(old_hash_cache, OldPrefix) \o Prefixed(new_hash_cache, NewPrefix))

\* missing_files, line 190-198
CopyMissing(old, new, file, has) ==
    LET hash_cache == load_image_hashes(file)
    IN MissingFiles(old, OldMediaNames(old), WithPrefixStripped(hash_cache, OldPrefix), has,
                    NewFileHashes(new, MediaNames(new),
                                  WithPrefixStripped(hash_cache, NewPrefix), has, <<>>))

\* shutil.copy2(old_file, new_dir/filename), lines 213-222: a file of that
\* name is overwritten, content and mtime are those of the source
RECURSIVE CopyFiles(_, _, _)
CopyFiles(old, new, names) ==
    IF Len(names) = 0 THEN new
    ELSE LET e == [name |-> names[1], content |-> EntryOf(old, names[1]).content,
                   mtime |-> EntryOf(old, names[1]).mtime]
         IN CopyFiles(old,
                      IF Exists(new, names[1])
                      THEN [i \in 1..Len(new) |-> IF new[i].name = names[1] THEN e ELSE new[i]]
                      ELSE Append(new, e),
                      Tail(names))

(***************************************************************************)
(* ExifToolService, exiftool_service.py.  The files are base.<ext> for one *)
(* base name: fs maps an extension to "absent", "empty", "orig" (the       *)
(* bytes of the file the call is about, which is not empty) or "other".    *)
(***************************************************************************)
ExifExts == {"jpg", "jpeg", "heic", "png", "mov", "mp4"}

\* what exiftool -FileType or file --mime-type find, lines 160-192 ("" when
\* the MIME type is unknown, line 192; line 171 turns jpeg into jpg)
DetectedTypes == {"", "jpg", "heic", "png", "mov", "mp4"}

\* fix_map, lines 66-74
FixMap(real_ext) ==
    CASE real_ext = "jpg"  -> {"heic", "png", "jfif", "webp"}
      [] real_ext = "png"  -> {"heic"}
      [] real_ext = "heic" -> {"jpg", "jpeg", "png"}
      [] real_ext = "mp4"  -> {"mov", "avi", "3gp"}
      [] real_ext = "mov"  -> {"mp4", "avi", "3gp"}
      [] OTHER -> {}

\* lines 57 and 223
JpgJpeg(real_ext, file_ext) ==
    \/ real_ext = "jpg" /\ file_ext = "jpeg"
    \/ real_ext = "jpeg" /\ file_ext = "jpg"

\* detect_file_type, lines 139-198: the real extension
detect_file_type(fs, file_ext, real) == IF fs[file_ext] = "absent" THEN "" ELSE real

NoFailure == [rm_empty |-> FALSE, copy |-> FALSE, rm_orig |-> FALSE]

\* the file operations that may raise: os.remove of the empty file (line 92),
\* shutil.copy2 (line 100), os.remove of the original (line 107)
Failures == [rm_empty : BOOLEAN, copy : BOOLEAN, rm_orig : BOOLEAN]

\* fix_file_extension, lines 34-126: the file system it leaves and the
\* extension of the path it returns
fix_file_extension_KeepsOriginal(fs, file_ext, real, fails) ==
    [fs |-> fs, path |-> IF real \in ExifExts THEN real ELSE file_ext]

fix_file_extension(fs, file_ext, real, fails) ==
    LET real_ext == detect_file_type(fs, file_ext, real)
        same     == [fs |-> fs, path |-> file_ext]
    IN IF fs[file_ext] = "absent" \/ real_ext = "" THEN same
       ELSE IF JpgJpeg(real_ext, file_ext) \/ real_ext = file_ext THEN same
       ELSE IF file_ext \notin FixMap(real_ext) THEN same
       ELSE IF fs[real_ext] \notin {"absent", "empty"} THEN [fs |-> fs, path |-> real_ext]
       ELSE IF fs[real_ext] = "empty" /\ fails.rm_empty THEN same
       ELSE IF fails.copy THEN [fs |-> [fs EXCEPT ![real_ext] = "absent"], path |-> file_ext]
       ELSE IF fails.rm_orig
            THEN [fs |-> [fs EXCEPT ![real_ext] = fs[file_ext]], path |-> real_ext]
            ELSE [fs |-> [fs EXCEPT ![real_ext] = fs[file_ext], ![file_ext] = "absent"],
                  path |-> real_ext]

\* apply_metadata, lines 216-238: the file system and the path after the
\* extension check
AfterExtensionCheck(fs, file_ext, real, fails) ==
    LET real_ext == detect_file_type(fs, file_ext, real)
    IN IF real_ext # "" /\ real_ext # file_ext /\ ~JpgJpeg(real_ext, file_ext)
       THEN fix_file_extension(fs, file_ext, real, fails)
       ELSE [fs |-> fs, path |-> file_ext]

\* what subprocess.run of exiftool does: exit status 0, another exit status,
\* subprocess.TimeoutExpired, or another exception (OSError)
Outcomes == {"ok", "fail", "timeout", "error"}

(***************************************************************************)
(* State                                                                   *)
(***************************************************************************)
VARIABLES
    newDir,         \* the target directory (new_dir), entries in walk order
    cacheFile,      \* data/image_hashes.csv
    HAS_IMAGE_HASH, \* image_utils.py:15-21, fixed when the module is imported
    similarity,     \* the similarity_threshold the runs are given, in percent
    lastDup,        \* the last find_duplicates call: its input and its result
    prevDup,        \* the call before it
    runs,           \* number of find_duplicates calls made
    edits,          \* number of changes made to the target directory
    lastOp,         \* the operation that acted last
    oldDir,         \* the Takeout directory (old_dir), entries in walk order
    pc,             \* "idle", or "records" inside the loop of find_metadata_pairs
    cursor,         \* position in oldDir of the next file of that loop
    new_files_dict, \* find_metadata_pairs: lower-cased stem -> path
    new_files_list, \* find_metadata_pairs: the media paths of new_dir
    pairs,          \* find_metadata_pairs: the list it returns
    processed_count,
    json_count,
    match_count,
    hash_match_count,
    name_match_count,
    file_hash_cache,     \* image_utils._file_hash_cache
    indexed_files,       \* MetadataService._indexed_files
    indexed_directories, \* MetadataService._indexed_directories
    processed_log,  \* logs/processed_files.log, the lines of this run
    attempts,       \* per parsed record of this run: what the loop body decided
    startDir,       \* newDir when the pairing run started
    lastRun,        \* the last finished pairing run
    prevRun,        \* the finished pairing run before it
    pairRuns,       \* number of pairing runs started
    renamed,        \* the rename of a target file made between two runs
    candidate,      \* file_utils.find_matching_file: the base_name it is given
    target_files,   \* os.listdir(target_dir), in the order it returns the names
    name_result,    \* what find_matching_file returned, "none yet" before the call
    sim_in,         \* hash_similarity: the two signatures it is given
    sim_out,        \* its results for (h1, h2), (h2, h1) and (h1, h1)
    hash_call,      \* find_matching_file_by_hash called on its own: source and result
    loaded,         \* load_image_hashes called on its own: whether it raised, what it returned
    copy_call,      \* copy_missing_files: the calls made, the last one's arguments and result
    to_hash,        \* hash computation phase: len(files_to_hash)
    cached_before,  \* the entries load_image_hashes returned at its start
    batch_i,        \* i of the loop over the batches
    batch_done,     \* the files of the batch whose result was collected
    hash_cache,     \* len(hash_cache)
    disk,           \* the rows of data/image_hashes.csv on disk
    hp,             \* where the phase is
    writing,        \* save_image_hashes has the cache file open
    routine,        \* the function whose batch is computed thread by thread
    max_workers,    \* os.cpu_count()
    task,           \* per file of the batch: where its compute_hash_for_file call is
    submit_i,       \* the next file of the batch the submit loop looks at
    cache_writes,   \* the writes to hash_cache or _file_hash_cache and their threads
    flush_log,      \* the save_image_hashes calls: their thread, the workers then busy
    main_pc,        \* step 3 of main: "pairing", "applying", "done" or "interrupted"
    matched_pairs,  \* main.py:803, what find_metadata_pairs returned
    apply_i,        \* main.py:807, the pairs process_file was called for
    updated_count,  \* main.py:805
    failed_count,   \* main.py:806
    summary,        \* main.py:822-837, the summary that was logged
    at_cancel,      \* what the run had accumulated when the interrupt arrived
    ex_in,          \* ExifToolService: the call, its arguments and the files before it
    ex_fs,          \* the files base.<ext> now
    ex_pc,          \* where apply_metadata is
    ex_path,        \* file_path after the extension check, or the path returned
    ex_fails,       \* the file operations that raised
    ex_runs,        \* the exiftool commands that wrote metadata and how they ended
    ex_ret,         \* the value returned
    rd_call,        \* the call of remove_duplicates: its arguments, the files before, its result
    idx_call,       \* the last call of index_files: how many were made, its argument, its result
    ph_tree,        \* import_photos_from_directory: the directory and the progress file found
    ph_pc,          \* the loop the import is in
    ph_i,           \* the album or the directory of the walk that is next
    ph_queue,       \* the photos of the album still to submit
    ph_progress,    \* the albums in progress and in the progress file
    ph_submitted    \* the photos handed to the import functions, in order

dupVars == <<cacheFile, HAS_IMAGE_HASH, similarity, lastDup, prevDup, runs, edits>>

loopVars == <<cursor, new_files_dict, new_files_list, pairs, processed_count, json_count,
              match_count, hash_match_count, name_match_count, file_hash_cache,
              indexed_files, indexed_directories, processed_log, attempts, startDir>>

pairVars == <<oldDir, pc, loopVars, lastRun, prevRun, pairRuns, renamed>>

nameVars == <<candidate, target_files, name_result>>

simVars == <<sim_in, sim_out>>

crashVars == <<to_hash, cached_before, batch_i, batch_done, hash_cache, disk, hp, writing>>

threadVars == <<routine, max_workers, task, submit_i, cache_writes, flush_log>>

cancelVars == <<main_pc, matched_pairs, apply_i, updated_count, failed_count, summary, at_cancel>>

exifVars == <<ex_in, ex_fs, ex_pc, ex_path, ex_fails, ex_runs, ex_ret>>

photoVars == <<ph_tree, ph_pc, ph_i, ph_queue, ph_progress, ph_submitted>>

moreVars == <<exifVars, rd_call, idx_call, photoVars>>

runVars == <<copy_call, crashVars, threadVars, cancelVars, moreVars>>

extVars == <<nameVars, simVars, hash_call, loaded, runVars>>

vars == <<newDir, lastOp, dupVars, pairVars, extVars>>

(***************************************************************************)
(* Bounds and universes                                                    *)
(***************************************************************************)
MaxMtime == 2

MaxRuns == 3

MaxEdits == 1

MaxPairRuns == 2

\* similarity thresholds in percent: 0.0 and the default 0.98
Thresholds == {0, 98}

A_JPG == <<"a", ".", "j", "p", "g">>

B_JPG == <<"b", ".", "j", "p", "g">>

C_PNG == <<"c", ".", "p", "n", "g">>

D_MOV == <<"d", ".", "m", "o", "v">>

E_MP4 == <<"e", ".", "m", "p", "4">>

Vacation == <<"v","a","c","a","t","i","o","n">>

DotJpg == <<".","j","p","g">>

VACATION_JPG == Vacation \o DotJpg

VACATION_1_JPG == Vacation \o <<" ","(","1",")">> \o DotJpg

ZZZ_NO_SUCH_FILE ==
    <<"z","z","z","_","n","o","_","s","u","c","h","_","f","i","l","e">>

\* the sidecars Takeout writes for two photos that are both titled vacation.jpg
VACATION_JSON == VACATION_JPG \o SupplementalMetadataJson

VACATION_DUP_JSON == Vacation \o <<"(","1",")">> \o DotJpg \o SupplementalMetadataJson

\* the " (N)" suffixes a rename adds
EditSuffixes == { <<" ","(","1",")">> }

\* two pictures sharing size and first KiB, a third picture in the same
\* 10 KiB size chunk, and video bytes in another chunk
Contents ==
    { [size |-> 5000,  head |-> 1, tail |-> 1, img |-> TRUE,  pix |-> {1}],
      [size |-> 5000,  head |-> 1, tail |-> 2, img |-> TRUE,  pix |-> {2}],
      [size |-> 7000,  head |-> 2, tail |-> 1, img |-> TRUE,  pix |-> {1, 2}],
      [size |-> 20000, head |-> 3, tail |-> 1, img |-> FALSE, pix |-> {}] }

\* the two pictures that share size and first KiB
PairContents == {c \in Contents : c.size = 5000}

NoCall == [valid |-> FALSE, dir |-> <<>>, cacheBefore |-> NoFile, result |-> <<>>]

NoRun == [valid |-> FALSE, startDir |-> <<>>, endDir |-> <<>>, pairs |-> <<>>,
          attempts |-> <<>>, json_count |-> 0, match_count |-> 0]

NoRename == [valid |-> FALSE, from |-> <<>>, to |-> <<>>]

\* the directories of k distinct files named in names, in every walk order
DirsOf(names, k) ==
    { d \in [1..k -> [name : names, content : Contents, mtime : 1..MaxMtime]] :
          \A i, j \in 1..k : i # j => d[i].name # d[j].name }

(***************************************************************************)
(* Duplicate detection runs over a directory that changes between runs     *)
(***************************************************************************)
\* find_matching_file of file_utils is not called
NameIdle == candidate = <<>> /\ target_files = <<>> /\ name_result = "none yet"

\* hash_similarity is not called on its own
NotCompared == [done |-> FALSE, ab |-> 0, ba |-> 0, aa |-> 0]

SimIdle == sim_in = <<NoneSig, NoneSig>> /\ sim_out = NotCompared

NoHashCall == [done |-> FALSE, calls |-> 0, source |-> <<>>, result |-> <<>>]

NotLoaded == [done |-> FALSE, raised |-> FALSE, hashes |-> <<>>]

NoCopyCall == [calls |-> 0, dry_run |-> FALSE, missing |-> <<>>]

\* the cache file: the rows after the header that are on disk, and the rows
\* the save_image_hashes call that wrote it was given
WrittenFile(rows) == [rows |-> rows, of |-> rows]

CrashIdle ==
    /\ to_hash = 0 /\ cached_before = 0 /\ batch_i = 0 /\ batch_done = 0
    /\ hash_cache = 0 /\ disk = WrittenFile(0) /\ hp = "idle" /\ writing = FALSE

\* the services of the later sections are not running
ThreadIdle ==
    /\ routine = "none" /\ max_workers = 0 /\ task = <<>> /\ submit_i = 0
    /\ cache_writes = {} /\ flush_log = {}

NotReturned == [returned |-> FALSE, pairs |-> <<>>]

NoSummary == [done |-> FALSE, matched |-> 0, updated |-> 0, failed |-> 0]

NotCancelled == [done |-> FALSE, phase |-> "none", pairs |-> <<>>, processed_count |-> 0,
                 match_count |-> 0, apply_i |-> 0, updated |-> 0, failed |-> 0]

CancelIdle ==
    /\ main_pc = "idle" /\ matched_pairs = NotReturned /\ apply_i = 0
    /\ updated_count = 0 /\ failed_count = 0 /\ summary = NoSummary /\ at_cancel = NotCancelled

NotReturnedYet == [done |-> FALSE, value |-> FALSE]

NoExifCall ==
    [call |-> "none", file_ext |-> "jpg", real |-> "", date |-> FALSE, other |-> FALSE,
     dry_run |-> FALSE, fs |-> [e \in ExifExts |-> "absent"]]

ExifIdle ==
    /\ ex_in = NoExifCall /\ ex_fs = NoExifCall.fs /\ ex_pc = "idle" /\ ex_path = "jpg"
    /\ ex_fails = NoFailure /\ ex_runs = <<>> /\ ex_ret = NotReturnedYet

NoRemoveCall ==
    [done |-> FALSE, before |-> <<>>, duplicates |-> <<>>, dry_run |-> FALSE,
     force_remove_numbered |-> FALSE, files_removed |-> 0]

NoIndexCall == [n |-> 0, directory |-> "", result |-> <<>>]

NoPhotoTree ==
    [walk |-> <<>>, album |-> [d \in {} |-> FALSE], photo |-> [d \in {} |-> FALSE], progress |-> {}]

PhotosIdle ==
    /\ ph_tree = NoPhotoTree /\ ph_pc = "idle" /\ ph_i = 0 /\ ph_queue = <<>>
    /\ ph_progress = {} /\ ph_submitted = <<>>

MoreIdle == ExifIdle /\ rd_call = NoRemoveCall /\ idx_call = NoIndexCall /\ PhotosIdle

RunIdle == copy_call = NoCopyCall /\ CrashIdle /\ ThreadIdle /\ CancelIdle /\ MoreIdle

ExtIdle == NameIdle /\ SimIdle /\ hash_call = NoHashCall /\ loaded = NotLoaded /\ RunIdle

\* no pairing run is in progress and none was made
PairIdle ==
    /\ pc = "idle" /\ cursor = 0
    /\ new_files_dict = <<>> /\ new_files_list = <<>> /\ pairs = <<>>
    /\ processed_count = 0 /\ json_count = 0 /\ match_count = 0
    /\ hash_match_count = 0 /\ name_match_count = 0
    /\ file_hash_cache = <<>> /\ indexed_files = <<>> /\ indexed_directories = {}
    /\ processed_log = <<>> /\ attempts = <<>> /\ startDir = <<>>
    /\ lastRun = NoRun /\ prevRun = NoRun /\ pairRuns = 0 /\ renamed = NoRename

InitCommon ==
    /\ cacheFile = NoFile
    /\ HAS_IMAGE_HASH \in BOOLEAN
    /\ similarity \in Thresholds
    /\ lastDup = NoCall
    /\ prevDup = NoCall
    /\ runs = 0
    /\ edits = 0
    /\ lastOp = "init"
    /\ oldDir = <<>>
    /\ PairIdle
    /\ ExtIdle

\* main.py:698-701: find_duplicates(new_dir, args.similarity)
FindDuplicatesRun ==
    /\ runs < MaxRuns
    /\ runs' = runs + 1
    /\ prevDup' = lastDup
    /\ lastDup' = [valid |-> TRUE, dir |-> newDir, cacheBefore |-> cacheFile,
                   result |-> find_duplicates(newDir, cacheFile, similarity, HAS_IMAGE_HASH)]
    /\ cacheFile' = CacheFileAfter(newDir, cacheFile, HAS_IMAGE_HASH)
    /\ lastOp' = "find_duplicates"
    /\ UNCHANGED <<newDir, HAS_IMAGE_HASH, similarity, edits, pairVars, extVars>>

\* between two runs the user copies one target file over another, whose
\* mtime becomes the latest time (an overwrite before the first run is
\* another initial directory)
ModifyFile ==
    /\ edits < MaxEdits
    /\ runs >= 1
    /\ \E i, j \in 1..Len(newDir) :
          /\ newDir[j].content # newDir[i].content
          /\ newDir' = [newDir EXCEPT ![i].content = newDir[j].content, ![i].mtime = MaxMtime]
    /\ edits' = edits + 1
    /\ lastOp' = "modify"
    /\ UNCHANGED <<cacheFile, HAS_IMAGE_HASH, similarity, lastDup, prevDup, runs, pairVars, extVars>>

\* three image files, scanned without changes in between
InitDup == newDir \in DirsOf({A_JPG, B_JPG, C_PNG}, 3) /\ InitCommon

NextDup == FindDuplicatesRun

SpecDup == InitDup /\ [][NextDup]_vars

\* two image or video files, scanned, overwritten and scanned again
InitRerun == newDir \in DirsOf({A_JPG, B_JPG, D_MOV, E_MP4}, 2) /\ InitCommon

NextRerun == FindDuplicatesRun \/ ModifyFile

SpecRerun == InitRerun /\ [][NextRerun]_vars

(***************************************************************************)
(* A pairing run: MetadataService.find_metadata_pairs(old_dir, new_dir),   *)
(* metadata_service.py:525-731, called by main.py:803 once per process     *)
(* with every other argument at its default.                               *)
(*   old_dir entry = [name, content, mtime, valid, title]: valid whether   *)
(*   the file parses as JSON, title the "title" of the parsed object       *)
(***************************************************************************)
use_hash_matching == TRUE

skip_duplicates == FALSE

\* the finished run, as the properties look at it
RunRecord(endDir, allPairs, allAttempts, jsons, matches) ==
    [valid |-> TRUE, startDir |-> startDir, endDir |-> endDir, pairs |-> allPairs,
     attempts |-> allAttempts, json_count |-> jsons, match_count |-> matches]

\* lines 577-659: the hashes of the target files are brought into the cache
\* file, then find_duplicates and, unless skip_duplicates,
\* remove_duplicates(duplicates, dry_run=False)
StartDuplicates ==
    LET precomputed == IF use_hash_matching
                       THEN CacheFileAfter(newDir, cacheFile, HAS_IMAGE_HASH)
                       ELSE cacheFile
        duplicates  == IF use_hash_matching
                       THEN find_duplicates(newDir, precomputed, similarity, HAS_IMAGE_HASH)
                       ELSE <<>>
    IN [cacheFile |-> IF use_hash_matching
                      THEN CacheFileAfter(newDir, precomputed, HAS_IMAGE_HASH)
                      ELSE precomputed,
        newDir    |-> IF Len(duplicates) > 0 /\ ~skip_duplicates
                      THEN remove_duplicates(newDir, duplicates, FALSE, TRUE).dir
                      ELSE newDir]

\* lines 541-659: the name dictionary and the file list, then StartDuplicates
FMP_Start ==
    /\ pc = "idle"
    /\ pairRuns < MaxPairRuns
    /\ \E st \in {StartDuplicates} :
          /\ new_files_list' = MediaNames(newDir)
          /\ new_files_dict' = BuildNewFilesDict(MediaNames(newDir), <<>>)
          /\ cacheFile' = st.cacheFile
          /\ newDir' = st.newDir
          /\ startDir' = newDir
          /\ IF Len(oldDir) = 0
             THEN /\ pc' = "idle" /\ cursor' = 0
                  /\ prevRun' = lastRun
                  /\ lastRun' = [RunRecord(st.newDir, <<>>, <<>>, 0, 0) EXCEPT !.startDir = newDir]
             ELSE /\ pc' = "records" /\ cursor' = 1
                  /\ UNCHANGED <<lastRun, prevRun>>
    /\ pairs' = <<>> /\ attempts' = <<>> /\ processed_log' = <<>>
    /\ processed_count' = 0 /\ json_count' = 0 /\ match_count' = 0
    /\ hash_match_count' = 0 /\ name_match_count' = 0
    /\ file_hash_cache' = <<>> /\ indexed_files' = <<>> /\ indexed_directories' = {}
    /\ pairRuns' = pairRuns + 1
    /\ lastOp' = "find_metadata_pairs"
    /\ UNCHANGED <<HAS_IMAGE_HASH, similarity, lastDup, prevDup, runs, edits, oldDir, renamed, extVars>>

\* line 671
IsSidecarName(file) ==
    /\ EndsWith(file, DotJson)
    /\ \/ Contains(file, Slice(SupplementalMetadataJson, 1, Len(SupplementalMetadataJson) - Len(DotJson)))
       \/ Contains(file, Slice(SupplementalMetaJson, 1, Len(SupplementalMetaJson) - Len(DotJson)))

\* lines 685-688: the media file the sidecar lies next to, <<>> for None
MediaFileOf(file) ==
    LET possible_media_file ==
            RemoveAll(RemoveAll(file, SupplementalMetadataJson), SupplementalMetaJson)
    IN IF Exists(oldDir, possible_media_file) /\ is_media_file(possible_media_file)
       THEN <<possible_media_file>> ELSE <<>>

\* variant: the elif of line 702 is an if
HashMatchingTried_AfterAnyName(by_dict, media_file) ==
    use_hash_matching /\ media_file # <<>>

\* lines 696-702: the hash branch is the elif of the dictionary lookup
HashMatchingTried(by_dict, media_file) ==
    ~by_dict /\ use_hash_matching /\ media_file # <<>>

\* variant: a match of the fallback name lookup is called a hash match
MatchMethod_FallbackAsHash(by_dict, by_hash, by_index) ==
    IF by_dict THEN "name"
    ELSE IF by_hash # <<>> \/ by_index # <<>> THEN "hash" ELSE "none"

\* lines 694, 699, 706, 713: match_method
MatchMethod(by_dict, by_hash, by_index) ==
    IF by_dict THEN "name"
    ELSE IF by_hash # <<>> THEN "hash"
    ELSE IF by_index # <<>> THEN "name" ELSE "none"

\* lines 681-714: what the loop body decides for the parsed sidecar e
MatchRecord(e) ==
    LET base_name_lower == Lower(get_base_filename(e.title))
        media_file      == MediaFileOf(e.name)
        by_dict         == DictHas(new_files_dict, base_name_lower)
        hash_tried      == HashMatchingTried(by_dict, media_file)
        by_hash         == IF hash_tried
                           THEN find_matching_file_by_hash(oldDir, newDir, media_file[1],
                                    new_files_list, file_hash_cache, similarity, HAS_IMAGE_HASH)
                           ELSE <<>>
        index_tried     == ~by_dict /\ by_hash = <<>>
        index           == IF index_tried
                           THEN index_files(newDir, indexed_files, "new_dir" \in indexed_directories)
                           ELSE indexed_files
        by_index        == IF index_tried THEN find_matching_file(e.name, index) ELSE <<>>
    IN [json_file     |-> e.name,
        title         |-> e.title,
        matching_file |-> IF by_dict THEN <<DictGet(new_files_dict, base_name_lower)>>
                          ELSE IF by_hash # <<>> THEN by_hash ELSE by_index,
        match_method  |-> MatchMethod(by_dict, by_hash, by_index),
        similarity    |-> IF by_dict THEN 100 ELSE IF by_hash # <<>> THEN similarity ELSE 0,
        hash_tried    |-> hash_tried,
        index_tried   |-> index_tried,
        hash_cache    |-> IF hash_tried
                          THEN HashCacheAfterMatch(oldDir, newDir, media_file[1], new_files_list,
                                                   file_hash_cache, HAS_IMAGE_HASH)
                          ELSE file_hash_cache,
        index         |-> index]

\* lines 670-679: a file that is no sidecar, or one that does not parse
NoMatch(e) ==
    [json_file |-> e.name, title |-> e.title, matching_file |-> <<>>,
     match_method |-> "none", similarity |-> 0, hash_tried |-> FALSE,
     index_tried |-> FALSE, hash_cache |-> file_hash_cache, index |-> indexed_files]

\* what the properties keep of a decision
Decision(m) ==
    [json_file |-> m.json_file, title |-> m.title, matching_file |-> m.matching_file,
     match_method |-> m.match_method, similarity |-> m.similarity,
     hash_tried |-> m.hash_tried]

\* lines 662-731: one file of old_dir; after the last one the pairs are returned
FMP_Record ==
    /\ pc = "records"
    /\ \E e \in {oldDir[cursor]} :
       \E meta \in {IsSidecarName(e.name)} :
       \E m \in {IF meta /\ e.valid THEN MatchRecord(e) ELSE NoMatch(e)} :
       \E hit \in {meta /\ e.valid /\ m.matching_file # <<>>} :
          /\ processed_count' = processed_count + 1
          /\ json_count' = IF meta THEN json_count + 1 ELSE json_count
          /\ match_count' = IF hit THEN match_count + 1 ELSE match_count
          /\ pairs' = IF hit THEN Append(pairs, <<e.name, m.matching_file[1], e.title>>)
                      ELSE pairs
          /\ attempts' = IF meta /\ e.valid THEN Append(attempts, Decision(m)) ELSE attempts
          /\ name_match_count' =
                 IF hit /\ m.match_method = "name" THEN name_match_count + 1 ELSE name_match_count
          /\ hash_match_count' =
                 IF hit /\ m.match_method = "hash" THEN hash_match_count + 1 ELSE hash_match_count
          \* log_processed_file reads the mtime of the target and logs nothing when that fails
          /\ processed_log' =
                 IF hit /\ Exists(newDir, m.matching_file[1])
                 THEN Append(processed_log,
                             <<e.name, m.matching_file[1], m.match_method, m.similarity>>)
                 ELSE processed_log
          /\ file_hash_cache' = m.hash_cache
          /\ indexed_files' = m.index
          /\ indexed_directories' =
                 IF m.index_tried THEN indexed_directories \cup {"new_dir"}
                 ELSE indexed_directories
    /\ IF cursor = Len(oldDir)
       THEN /\ pc' = "idle" /\ cursor' = 0
            /\ prevRun' = lastRun
            /\ lastRun' = RunRecord(newDir, pairs', attempts', json_count', match_count')
       ELSE /\ pc' = "records" /\ cursor' = cursor + 1
            /\ UNCHANGED <<lastRun, prevRun>>
    /\ lastOp' = "record"
    /\ UNCHANGED <<newDir, dupVars, oldDir, new_files_dict, new_files_list, startDir, extVars,
                   pairRuns, renamed>>

\* name with suffix put before its extension
AddSuffix(name, suffix) == SplitExt(name)[1] \o suffix \o SplitExt(name)[2]

\* the entries of dir without entry i, and e put at position k
MoveRenamed(dir, i, e, k) ==
    LET rest == [j \in 1..(Len(dir) - 1) |-> IF j < i THEN dir[j] ELSE dir[j + 1]]
    IN Slice(rest, 1, k - 1) \o <<e>> \o Slice(rest, k, Len(rest))

\* between two pairing runs the user renames a target file by adding " (N)"
\* before its extension; the place of the new name in the walk order is
\* the file system's choice
RenameTarget ==
    /\ pc = "idle"
    /\ lastRun.valid
    /\ ~renamed.valid
    /\ pairRuns < MaxPairRuns
    /\ \E i \in 1..Len(newDir), suffix \in EditSuffixes, k \in 1..Len(newDir) :
          LET to == AddSuffix(newDir[i].name, suffix)
          IN /\ ~Exists(newDir, to)
             /\ newDir' = MoveRenamed(newDir, i, [newDir[i] EXCEPT !.name = to], k)
             /\ renamed' = [valid |-> TRUE, from |-> newDir[i].name, to |-> to]
    /\ lastOp' = "rename"
    /\ UNCHANGED <<dupVars, oldDir, pc, loopVars, lastRun, prevRun, pairRuns, extVars>>

\* the files of old_dir: the two sidecars titled vacation.jpg or not, and the
\* photo of the first one
OldEntries ==
    [name : {VACATION_JSON}, content : {CHOOSE c \in PairContents : TRUE}, mtime : {1},
     valid : {TRUE}, title : {VACATION_JPG, ZZZ_NO_SUCH_FILE}]
    \cup [name : {VACATION_DUP_JSON}, content : {CHOOSE c \in PairContents : TRUE}, mtime : {1},
          valid : BOOLEAN, title : {VACATION_JPG}]
    \cup [name : {VACATION_JPG}, content : PairContents, mtime : {1},
          valid : {FALSE}, title : {<<>>}]

OldDirs ==
    { d \in [1..2 -> OldEntries] : d[1].name # d[2].name }

TargetNames == {VACATION_JPG, VACATION_1_JPG, B_JPG}

\* one or two target files holding the two pictures, each with the earliest
\* or the latest modification time
TargetDirs ==
    { d \in DirsOf(TargetNames, 1) \cup DirsOf(TargetNames, 2) :
          \A i \in 1..Len(d) : d[i].content \in PairContents /\ d[i].mtime \in {1, MaxMtime} }

InitPair ==
    /\ newDir \in TargetDirs
    /\ oldDir \in OldDirs
    /\ cacheFile = NoFile
    /\ HAS_IMAGE_HASH \in BOOLEAN
    /\ similarity = 98
    /\ lastDup = NoCall /\ prevDup = NoCall /\ runs = 0 /\ edits = 0
    /\ lastOp = "init"
    /\ PairIdle
    /\ ExtIdle

NextPair == FMP_Start \/ FMP_Record \/ RenameTarget

SpecPair == InitPair /\ [][NextPair]_vars

(***************************************************************************)
(* A call of file_utils.find_matching_file(base_name, target_dir),         *)
(* file_utils.py:234                                                       *)
(***************************************************************************)
\* nothing of the duplicate detection or of a pairing run is in use
InitQuiet ==
    /\ newDir = <<>>
    /\ similarity = 98
    /\ lastDup = NoCall /\ prevDup = NoCall /\ runs = 0 /\ edits = 0
    /\ lastOp = "init"
    /\ oldDir = <<>>
    /\ PairIdle

IMG_1234 == <<"I","M","G","_","1","2","3","4">>

Candidates ==
    { IMG_1234,
      <<"a","b","-","c","d","1">>,
      <<"a","-","b","-","c">>,
      <<"I","M","G","_","a","b">>,
      <<"a","b","c","d">>,
      <<"a","-","b">> }

TargetFileNames ==
    { IMG_1234 \o DotJpg,
      <<"1","2","3","4">> \o DotJpg,
      IMG_E \o <<"1","2","3","4">> \o DotJpg,
      <<"a","b","x","d","1">> \o DotJpg,
      <<"a","b","_","c","d","1","z">> \o DotJpg,
      <<"a","-","b">> \o DotJpg,
      <<"z","1","2","3","4",".","p","n","g">>,
      <<"a","b">> \o DotJpg }

MaxListed == 3

\* the listings of at most MaxListed files, in every order
Listings ==
    UNION { {l \in [1..n -> TargetFileNames] : \A i, j \in 1..n : i # j => l[i] # l[j]} :
            n \in 1..MaxListed }

InitName ==
    /\ InitQuiet
    /\ cacheFile = NoFile
    /\ HAS_IMAGE_HASH = TRUE
    /\ SimIdle /\ hash_call = NoHashCall /\ loaded = NotLoaded /\ RunIdle
    /\ candidate \in Candidates
    /\ target_files \in Listings
    /\ name_result = "none yet"

\* file_utils.py:234-258
FindMatchingFileCall ==
    /\ name_result = "none yet"
    /\ name_result' = fu_find_matching_file(candidate, target_files)
    /\ lastOp' = "find_matching_file"
    /\ UNCHANGED <<newDir, dupVars, pairVars, candidate, target_files, simVars, hash_call, loaded, runVars>>

NextName == FindMatchingFileCall

SpecName == InitName /\ [][NextName]_vars

(***************************************************************************)
(* Calls of hash_similarity(hash1, hash2), image_utils.py:229-266, on the  *)
(* signatures the program computes and on strings that start with '0x'     *)
(***************************************************************************)
\* a directory holding one file
OneFile(n, c) == <<[name |-> n, content |-> c, mtime |-> 1]>>

\* what compute_image_hash and compute_file_hash return for the modelled
\* contents, with and without the imagehash library
ComputedSignatures ==
    { compute_image_hash(OneFile(A_JPG, c), A_JPG, has) : c \in Contents, has \in BOOLEAN }
    \cup { compute_file_hash(OneFile(D_MOV, c), D_MOV) : c \in Contents }

\* strings '0x...' that imagehash.hex_to_hash reads as a matrix of side 4 or
\* HashSize
HexSignatures ==
    { [alg |-> "0xhex", bits |-> b, size |-> n, head |-> 0] :
        b \in {{}, {1}, {1, 2}}, n \in {4, HashSize} }

Signatures == ComputedSignatures \cup HexSignatures \cup {NoneSig}

InitSim ==
    /\ InitQuiet
    /\ cacheFile = NoFile
    /\ HAS_IMAGE_HASH \in BOOLEAN
    /\ NameIdle /\ hash_call = NoHashCall /\ loaded = NotLoaded /\ RunIdle
    /\ sim_in \in Signatures \X Signatures
    /\ sim_out = NotCompared

HashSimilarityCall ==
    /\ ~sim_out.done
    /\ sim_out' = [done |-> TRUE,
                   ab |-> hash_similarity(sim_in[1], sim_in[2], HAS_IMAGE_HASH),
                   ba |-> hash_similarity(sim_in[2], sim_in[1], HAS_IMAGE_HASH),
                   aa |-> hash_similarity(sim_in[1], sim_in[1], HAS_IMAGE_HASH)]
    /\ lastOp' = "hash_similarity"
    /\ UNCHANGED <<newDir, dupVars, pairVars, nameVars, sim_in, hash_call, loaded, runVars>>

NextSim == HashSimilarityCall

SpecSim == InitSim /\ [][NextSim]_vars

(***************************************************************************)
(* Calls of find_matching_file_by_hash(source_file, target_dir,            *)
(* similarity_threshold, file_list), image_utils.py:804-900, with the list *)
(* of the media files of the target directory as metadata_service.py:703   *)
(* passes it                                                               *)
(***************************************************************************)
MaxHashCalls == 2

VACATION_PNG == Vacation \o <<".","p","n","g">>

SourceNames == {VACATION_JPG, E_MP4, A_JPG}

HashSourceDirs ==
    { <<[name |-> n, content |-> c, mtime |-> 1]>> : n \in {VACATION_JPG, E_MP4}, c \in Contents }

HashTargetDirs ==
    UNION { { d \in [1..k -> [name : {VACATION_JPG, VACATION_PNG, B_JPG, D_MOV},
                              content : Contents, mtime : {1}]] :
                \A i, j \in 1..k : i # j => d[i].name # d[j].name } : k \in 1..2 }

InitHash ==
    /\ newDir \in HashTargetDirs
    /\ oldDir \in HashSourceDirs
    /\ cacheFile = NoFile
    /\ HAS_IMAGE_HASH \in BOOLEAN
    /\ similarity \in Thresholds
    /\ lastDup = NoCall /\ prevDup = NoCall /\ runs = 0 /\ edits = 0
    /\ lastOp = "init"
    /\ PairIdle
    /\ NameIdle /\ SimIdle /\ hash_call = NoHashCall /\ loaded = NotLoaded /\ RunIdle

FindByHashCall ==
    /\ hash_call.calls < MaxHashCalls
    /\ \E source \in SourceNames :
          /\ hash_call' = [done |-> TRUE, calls |-> hash_call.calls + 1, source |-> source,
                           result |-> find_matching_file_by_hash(
                                          oldDir, newDir, source, MediaNames(newDir),
                                          file_hash_cache, similarity, HAS_IMAGE_HASH)]
          /\ file_hash_cache' =
                IF Exists(oldDir, source)
                THEN HashCacheAfterMatch(oldDir, newDir, source, MediaNames(newDir),
                                         file_hash_cache, HAS_IMAGE_HASH)
                ELSE file_hash_cache
    /\ lastOp' = "find_matching_file_by_hash"
    /\ UNCHANGED <<newDir, dupVars, oldDir, pc, cursor, new_files_dict, new_files_list, pairs,
                   processed_count, json_count, match_count, hash_match_count,
                   name_match_count, indexed_files, indexed_directories, processed_log,
                   attempts, startDir, lastRun, prevRun, pairRuns, renamed,
                   nameVars, simVars, loaded, runVars>>

NextHash == FindByHashCall

SpecHash == InitHash /\ [][NextHash]_vars

(***************************************************************************)
(* Calls of load_image_hashes, image_utils.py:145-171, on a cache file     *)
(* that is missing, intact, truncated or overwritten with other bytes.     *)
(* A file is the sequence of its lines as csv.reader splits them.          *)
(***************************************************************************)
MaxLines == 3

\* records as save_image_hashes writes them
IntactRows ==
    { <<n, [alg |-> "md5", bits |-> {}, size |-> 5000, head |-> 1]>> : n \in {A_JPG, B_JPG} }

CutSig == [alg |-> "md5 cut", bits |-> {}, size |-> 5000, head |-> 0]

Junk == <<"j","u","n","k">>

JunkSig == [alg |-> "junk", bits |-> {}, size |-> 0, head |-> 0]

\* a record cut inside its path, a record cut inside its hash value, text
\* without a comma, text with a comma, an empty line
OtherRows == { <<<<"a",".">> >>, <<A_JPG, CutSig>>, <<Junk>>, <<Junk, JunkSig>>, <<>> }

FileLines == IntactRows \cup OtherRows \cup {BadBytes}

\* no file, or at most MaxLines lines of which the first may be the header
CacheFiles ==
    {NoFile, <<>>}
    \cup UNION { { <<h>> \o rest : h \in FileLines \cup {CsvHeader},
                                  rest \in [1..n -> FileLines] } : n \in 0..(MaxLines - 1) }

InitLoad ==
    /\ InitQuiet
    /\ cacheFile \in CacheFiles
    /\ HAS_IMAGE_HASH = TRUE
    /\ NameIdle /\ SimIdle /\ hash_call = NoHashCall /\ RunIdle
    /\ loaded = NotLoaded

LoadCall ==
    /\ ~loaded.done
    /\ \E k \in (IF FirstBad(cacheFile) = 0 THEN {0} ELSE ReadBeforeError(cacheFile)) :
          loaded' = [done   |-> TRUE,
                     raised |-> load_outcome(cacheFile, k).raised,
                     hashes |-> load_outcome(cacheFile, k).hashes]
    /\ lastOp' = "load_image_hashes"
    /\ UNCHANGED <<newDir, dupVars, pairVars, nameVars, simVars, hash_call, runVars>>

NextLoad == LoadCall

SpecLoad == InitLoad /\ [][NextLoad]_vars

(***************************************************************************)
(* Runs of find_duplicates, find_metadata_pairs and copy_missing_files     *)
(* that share data/image_hashes.csv, main.py:698-773                       *)
(***************************************************************************)
MaxCacheRuns == 3

\* one target file holding one of the two pictures
CacheNewDirs ==
    { d \in DirsOf({VACATION_JPG, B_JPG}, 1) : d[1].content \in PairContents /\ d[1].mtime = 1 }

\* a Takeout directory that holds the photo
CacheOldDirs == { d \in OldDirs : Len(OldMediaNames(d)) > 0 }

InitCache ==
    /\ newDir \in CacheNewDirs
    /\ oldDir \in CacheOldDirs
    /\ cacheFile = NoFile
    /\ HAS_IMAGE_HASH \in BOOLEAN
    /\ similarity = 98
    /\ lastDup = NoCall /\ prevDup = NoCall /\ runs = 0 /\ edits = 0
    /\ lastOp = "init"
    /\ PairIdle
    /\ ExtIdle

CacheRunsMade == runs + pairRuns + copy_call.calls

\* main.py:698-701
CacheFindDuplicates ==
    /\ pc = "idle"
    /\ CacheRunsMade < MaxCacheRuns
    /\ FindDuplicatesRun

\* main.py:803
CachePairingStart ==
    /\ CacheRunsMade < MaxCacheRuns
    /\ FMP_Start

\* main.py:738 and 761: CopyService.copy_missing_files(old_dir, new_dir, dry_run)
CopyMissingFilesRun ==
    /\ pc = "idle"
    /\ CacheRunsMade < MaxCacheRuns
    /\ \E dry_run \in BOOLEAN :
       \E missing \in {CopyMissing(oldDir, newDir, cacheFile, HAS_IMAGE_HASH)} :
          /\ copy_call' = [calls |-> copy_call.calls + 1, dry_run |-> dry_run, missing |-> missing]
          /\ newDir' = IF dry_run THEN newDir ELSE CopyFiles(oldDir, newDir, missing)
    /\ cacheFile' = CopyCacheFileAfter(oldDir, newDir, cacheFile, HAS_IMAGE_HASH)
    /\ lastOp' = "copy_missing_files"
    /\ UNCHANGED <<HAS_IMAGE_HASH, similarity, lastDup, prevDup, runs, edits, pairVars,
                   nameVars, simVars, hash_call, loaded, crashVars, threadVars, cancelVars, moreVars>>

NextCache == CacheFindDuplicates \/ CachePairingStart \/ FMP_Record \/ CopyMissingFilesRun

SpecCache == InitCache /\ [][NextCache]_vars

(***************************************************************************)
(* The hash computation phase of find_duplicates, image_utils.py:486-519,  *)
(* and of find_metadata_pairs, metadata_service.py:591-624 (the same       *)
(* code), stopped abruptly at any point.  Files and cache entries are      *)
(* counted: the loaded entries are the first rows of the cache file and    *)
(* of hash_cache, the signatures of this run follow in the order they are  *)
(* collected.  Every file gets a signature.                                *)
(***************************************************************************)
\* line 490
batch_size == 500

\* line 512: (i + batch_size) % 2000 == 0
SavePeriod == 2000

MaxToHash == 2100

\* len(files_to_hash): one file, one batch, one batch and a file, the save
\* period, the save period and a file, and more
NumbersToHash == {1, batch_size, batch_size + 1, SavePeriod, SavePeriod + 1, MaxToHash}

\* entries the cache file holds when the run loads it
NumbersCached == {0, 2}

InitCrash ==
    /\ InitQuiet
    /\ cacheFile = NoFile
    /\ HAS_IMAGE_HASH = TRUE
    /\ NameIdle /\ SimIdle /\ hash_call = NoHashCall /\ loaded = NotLoaded
    /\ copy_call = NoCopyCall
    /\ to_hash \in NumbersToHash
    /\ cached_before \in NumbersCached
    /\ hash_cache = cached_before
    /\ disk = WrittenFile(cached_before)
    /\ batch_i = 0 /\ batch_done = 0
    /\ hp = "batch" /\ writing = FALSE
    /\ ThreadIdle /\ CancelIdle /\ MoreIdle

\* batch = files_to_hash[i:i+batch_size], line 494
BatchLen == IF batch_i + batch_size <= to_hash THEN batch_size ELSE to_hash - batch_i

\* line 512
SaveDue == (batch_i + batch_size) % SavePeriod = 0 \/ batch_i + batch_size >= to_hash

quietVars == <<newDir, lastOp, dupVars, pairVars, nameVars, simVars, hash_call, loaded, copy_call>>

crashQuiet == <<quietVars, threadVars, cancelVars, moreVars>>

\* lines 502-508: the result of one file of the batch is stored in hash_cache
HP_Collect ==
    /\ hp = "batch"
    /\ batch_done < BatchLen
    /\ batch_done' = batch_done + 1
    /\ hash_cache' = hash_cache + 1
    /\ UNCHANGED <<to_hash, cached_before, batch_i, disk, hp, writing, crashQuiet>>

\* lines 511-512 and 493: the batch is finished; a save is due, or the next
\* batch starts, or the loop ends and line 519 saves
HP_BatchEnd ==
    /\ hp = "batch"
    /\ batch_done = BatchLen
    /\ hp' = IF SaveDue THEN "save"
             ELSE IF batch_i + batch_size < to_hash THEN "batch" ELSE "final save"
    /\ batch_i' = IF SaveDue THEN batch_i ELSE batch_i + batch_size
    /\ batch_done' = IF SaveDue THEN batch_done ELSE 0
    /\ UNCHANGED <<to_hash, cached_before, hash_cache, disk, writing, crashQuiet>>

\* save_image_hashes, line 186: open(hash_file, 'w') empties the file
HP_SaveOpen ==
    /\ hp \in {"save", "final save"}
    /\ ~writing
    /\ writing' = TRUE
    /\ disk' = [rows |-> 0, of |-> hash_cache]
    /\ UNCHANGED <<to_hash, cached_before, batch_i, batch_done, hash_cache, hp, crashQuiet>>

\* lines 189-190: one more row reaches the file
HP_SaveRow ==
    /\ hp \in {"save", "final save"}
    /\ writing
    /\ disk.rows < disk.of
    /\ disk' = [disk EXCEPT !.rows = disk.rows + 1]
    /\ UNCHANGED <<to_hash, cached_before, batch_i, batch_done, hash_cache, hp, writing, crashQuiet>>

\* the with block of line 186 ends; after line 515 the loop goes on, after
\* line 519 the phase is over
HP_SaveClose ==
    /\ hp \in {"save", "final save"}
    /\ writing
    /\ disk.rows = disk.of
    /\ writing' = FALSE
    /\ hp' = IF hp = "final save" THEN "done"
             ELSE IF batch_i + batch_size < to_hash THEN "batch" ELSE "final save"
    /\ batch_i' = IF hp = "save" THEN batch_i + batch_size ELSE batch_i
    /\ batch_done' = 0
    /\ UNCHANGED <<to_hash, cached_before, hash_cache, disk, crashQuiet>>

\* the process is killed
HP_Stop ==
    /\ hp \in {"batch", "save", "final save"}
    /\ hp' = "stopped"
    /\ UNCHANGED <<to_hash, cached_before, batch_i, batch_done, hash_cache, disk, writing, crashQuiet>>

NextCrash == HP_Collect \/ HP_BatchEnd \/ HP_SaveOpen \/ HP_SaveRow \/ HP_SaveClose \/ HP_Stop

SpecCrash == InitCrash /\ [][NextCrash]_vars

(***************************************************************************)
(* One batch of the parallel hash computation, thread by thread:           *)
(* find_duplicates, image_utils.py:493-519, find_metadata_pairs,           *)
(* metadata_service.py:598-624, and find_matching_file_by_hash,            *)
(* image_utils.py:864-895.  The orchestrating thread submits the files of  *)
(* the batch, collects the results as they complete and leaves the with    *)
(* block; the workers of the pool run compute_hash_for_file.  The files    *)
(* are fewer than a batch (500 files, or 100 in the third function).       *)
(***************************************************************************)
MaxThreadFiles == 3

\* os.cpu_count() of the machines modelled
CpuCounts == {1, 2}

Routines == {"find_duplicates", "find_metadata_pairs", "find_matching_file_by_hash"}

\* the hash_cache argument of the submitted calls, lines 500, 605 and 872:
\* compute_hash_for_file(file_path), so the parameter has its default None
SubmittedCacheArg_Shared(r) == "hash_cache"

SubmittedCacheArg(r) == "None"

\* the files of the batch that a worker has or will have in hand
InPool == {f \in DOMAIN task : task[f] \in {"queued", "running", "finished", "failed"}}

Running == {f \in DOMAIN task : task[f] = "running"}

InitThreads ==
    /\ InitQuiet
    /\ cacheFile = NoFile
    /\ HAS_IMAGE_HASH = TRUE
    /\ NameIdle /\ SimIdle /\ hash_call = NoHashCall /\ loaded = NotLoaded
    /\ copy_call = NoCopyCall
    /\ routine \in Routines
    /\ max_workers \in CpuCounts
    /\ to_hash \in 1..MaxThreadFiles
    \* line 871: a target the module cache holds is not submitted; lines
    \* 482-484: files_to_hash holds no cached file
    /\ task \in [1..to_hash -> {"new", "cached"}]
    /\ routine # "find_matching_file_by_hash" => \A f \in 1..to_hash : task[f] = "new"
    /\ submit_i = 1
    /\ cache_writes = {}
    /\ flush_log = {}
    /\ cached_before = 0 /\ batch_i = 0 /\ batch_done = 0 /\ hash_cache = 0
    /\ disk = WrittenFile(0)
    /\ hp = "submit" /\ writing = FALSE
    /\ CancelIdle /\ MoreIdle

threadQuiet == <<quietVars, to_hash, cached_before, batch_i, batch_done, hash_cache, disk,
                 routine, max_workers, cancelVars, moreVars>>

\* lines 499-500, 604-605, 870-872: executor.submit for the next file
M_Submit ==
    /\ hp = "submit"
    /\ task' = IF task[submit_i] = "new" THEN [task EXCEPT ![submit_i] = "queued"] ELSE task
    /\ submit_i' = submit_i + 1
    /\ hp' = IF submit_i = BatchLen THEN "collect" ELSE "submit"
    /\ UNCHANGED <<cache_writes, flush_log, writing, threadQuiet>>

\* a worker of the pool takes a submitted call
W_Start ==
    /\ Cardinality(Running) < max_workers
    /\ \E f \in DOMAIN task :
          /\ task[f] = "queued"
          /\ task' = [task EXCEPT ![f] = "running"]
    /\ UNCHANGED <<submit_i, cache_writes, flush_log, hp, writing, threadQuiet>>

\* compute_hash_for_file returns in the worker, lines 211-227: it stores the
\* signature in the cache it was given, if it was given one
W_Finish ==
    \E f \in DOMAIN task : \E ok \in BOOLEAN :
        /\ task[f] = "running"
        /\ task' = [task EXCEPT ![f] = IF ok THEN "finished" ELSE "failed"]
        /\ cache_writes' = IF ok /\ SubmittedCacheArg(routine) # "None"
                           THEN cache_writes \cup {[file |-> f, by |-> "worker"]}
                           ELSE cache_writes
        /\ UNCHANGED <<submit_i, flush_log, hp, writing, threadQuiet>>

\* lines 502-508, 607-613: a signature is stored in hash_cache; lines
\* 874-878: whatever the call returned is stored in _file_hash_cache
M_Collect ==
    /\ hp = "collect"
    /\ \E f \in DOMAIN task :
          /\ task[f] \in {"finished", "failed"}
          /\ task' = [task EXCEPT ![f] = "collected"]
          /\ cache_writes' = IF task[f] = "finished" \/ routine = "find_matching_file_by_hash"
                             THEN cache_writes \cup {[file |-> f, by |-> "main"]}
                             ELSE cache_writes
    /\ UNCHANGED <<submit_i, flush_log, hp, writing, threadQuiet>>

\* as_completed is exhausted and the with block of lines 497, 602, 868 ends
\* (ThreadPoolExecutor.__exit__ waits for the workers); then line 512 or
\* 617, or the comparison of lines 884-895
M_ExitWith ==
    /\ hp = "collect"
    /\ InPool = {}
    /\ hp' = IF routine = "find_matching_file_by_hash" THEN "compare"
             ELSE IF SaveDue THEN "save" ELSE "final save"
    /\ UNCHANGED <<task, submit_i, cache_writes, flush_log, writing, threadQuiet>>

\* lines 515, 519, 620, 624: save_image_hashes is entered
M_FlushBegin ==
    /\ hp \in {"save", "final save"}
    /\ ~writing
    /\ writing' = TRUE
    /\ flush_log' = flush_log \cup {[by |-> "main", line |-> hp, workers |-> InPool]}
    /\ UNCHANGED <<task, submit_i, cache_writes, hp, threadQuiet>>

\* save_image_hashes returns
M_FlushEnd ==
    /\ hp \in {"save", "final save"}
    /\ writing
    /\ writing' = FALSE
    /\ hp' = IF hp = "save" THEN "final save" ELSE "done"
    /\ UNCHANGED <<task, submit_i, cache_writes, flush_log, threadQuiet>>

\* lines 884-895
M_Compare ==
    /\ hp = "compare"
    /\ hp' = "done"
    /\ UNCHANGED <<task, submit_i, cache_writes, flush_log, writing, threadQuiet>>

NextThreads ==
    M_Submit \/ W_Start \/ W_Finish \/ M_Collect \/ M_ExitWith \/ M_FlushBegin \/ M_FlushEnd
    \/ M_Compare

SpecThreads == InitThreads /\ [][NextThreads]_vars

(***************************************************************************)
(* Step 3 of main, main.py:792-837: find_metadata_pairs, then process_file *)
(* for every pair, then the summary; a KeyboardInterrupt may arrive while  *)
(* the records are paired or while the metadata is applied.                *)
(***************************************************************************)
\* the target directories with unmodified files
CancelNewDirs == { d \in TargetDirs : \A i \in 1..Len(d) : d[i].mtime = 1 }

InitCancel ==
    /\ newDir \in CancelNewDirs
    /\ oldDir \in OldDirs
    /\ cacheFile = NoFile
    /\ HAS_IMAGE_HASH = TRUE
    /\ similarity = 98
    /\ lastDup = NoCall /\ prevDup = NoCall /\ runs = 0 /\ edits = 0
    /\ lastOp = "init"
    /\ PairIdle
    /\ NameIdle /\ SimIdle /\ hash_call = NoHashCall /\ loaded = NotLoaded
    /\ copy_call = NoCopyCall /\ CrashIdle /\ ThreadIdle /\ MoreIdle
    /\ main_pc = "pairing"
    /\ matched_pairs = NotReturned
    /\ apply_i = 0 /\ updated_count = 0 /\ failed_count = 0
    /\ summary = NoSummary
    /\ at_cancel = NotCancelled

cancelQuiet == <<cacheFile, HAS_IMAGE_HASH, similarity, lastDup, prevDup, runs, edits, newDir,
                 pairVars, nameVars, simVars, hash_call, loaded, copy_call, crashVars, threadVars, moreVars>>

\* main.py:803 calls find_metadata_pairs
MainPairingStart ==
    /\ main_pc = "pairing"
    /\ pairRuns = 0
    /\ FMP_Start

\* the loop of metadata_service.py:662-727 handles one more file of old_dir
MainPairingRecord ==
    /\ main_pc = "pairing"
    /\ FMP_Record

\* metadata_service.py:731 and main.py:803-806: the pairs are returned
MainPairsReturned ==
    /\ main_pc = "pairing"
    /\ pc = "idle"
    /\ lastRun.valid
    /\ matched_pairs' = [returned |-> TRUE, pairs |-> lastRun.pairs]
    /\ main_pc' = "applying"
    /\ lastOp' = "pairs returned"
    /\ UNCHANGED <<apply_i, updated_count, failed_count, summary, at_cancel, cancelQuiet>>

\* main.py:807-820: process_file for the next pair returns True or False or
\* raises an Exception
MainApply ==
    /\ main_pc = "applying"
    /\ apply_i < Len(matched_pairs.pairs)
    /\ apply_i' = apply_i + 1
    /\ \E outcome \in {"updated", "failed", "error"} :
          /\ updated_count' = IF outcome = "updated" THEN updated_count + 1 ELSE updated_count
          /\ failed_count' = IF outcome = "updated" THEN failed_count ELSE failed_count + 1
    /\ lastOp' = "process_file"
    /\ UNCHANGED <<main_pc, matched_pairs, summary, at_cancel, cancelQuiet>>

\* main.py:822-837: the summary is logged
Report == [done |-> TRUE, matched |-> Len(matched_pairs.pairs),
           updated |-> updated_count, failed |-> failed_count]

MainSummary ==
    /\ main_pc = "applying"
    /\ apply_i = Len(matched_pairs.pairs)
    /\ summary' = Report
    /\ main_pc' = "done"
    /\ lastOp' = "summary"
    /\ UNCHANGED <<matched_pairs, apply_i, updated_count, failed_count, at_cancel, cancelQuiet>>

\* what the run has accumulated when the interrupt arrives
Accumulated(phase) ==
    [done |-> TRUE, phase |-> phase, pairs |-> pairs, processed_count |-> processed_count,
     match_count |-> match_count, apply_i |-> apply_i,
     updated |-> updated_count, failed |-> failed_count]

\* KeyboardInterrupt inside the loop of find_metadata_pairs: the handler of
\* metadata_service.py:726 is for Exception, main.py:803 is in no try
\* block, so the interrupt ends main
InterruptPairing ==
    /\ main_pc = "pairing"
    /\ pc = "records"
    /\ at_cancel' = Accumulated("pairing")
    /\ main_pc' = "interrupted"
    /\ lastOp' = "KeyboardInterrupt"
    /\ UNCHANGED <<matched_pairs, apply_i, updated_count, failed_count, summary, cancelQuiet>>

\* KeyboardInterrupt inside process_file: main.py:815-817 logs a warning and
\* leaves the loop, the interrupted file is counted neither as updated nor
\* as failed, and the summary follows
InterruptApply ==
    /\ main_pc = "applying"
    /\ apply_i < Len(matched_pairs.pairs)
    /\ at_cancel' = Accumulated("applying")
    /\ summary' = Report
    /\ main_pc' = "done"
    /\ lastOp' = "KeyboardInterrupt"
    /\ UNCHANGED <<matched_pairs, apply_i, updated_count, failed_count, cancelQuiet>>

NextCancel ==
    MainPairingStart \/ MainPairingRecord \/ MainPairsReturned \/ MainApply \/ MainSummary
    \/ InterruptPairing \/ InterruptApply

SpecCancel == InitCancel /\ [][NextCancel]_vars

(***************************************************************************)
(* A call of ExifToolService.apply_metadata(file_path, metadata_args,       *)
(* dry_run), exiftool_service.py:201-371, or of fix_file_extension          *)
(* (file_path), lines 34-126.  metadata_args is described by whether it     *)
(* holds date arguments (-DateTime..., -Create..., -Modify...) and whether  *)
(* it holds other arguments.  result2.stderr is a str (text=True, line 332),*)
(* so line 342 raises AttributeError and the attempt of line 350 is never   *)
(* made.                                                                    *)
(***************************************************************************)
\* the files base.<ext> before the call: the file of the call, or no such
\* file, and no, an empty or another file under the detected extension
ExifFileSystems(file_ext, real) ==
    { fs \in [ExifExts -> {"absent", "empty", "orig", "other"}] :
          /\ fs[file_ext] \in {"orig", "absent"}
          /\ \A e \in ExifExts \ {file_ext} :
                /\ fs[e] # "orig"
                /\ e # real => fs[e] = "absent" }

ExifInputs ==
    { i \in [call : {"apply_metadata", "fix_file_extension"}, file_ext : ExifExts,
             real : DetectedTypes, date : BOOLEAN, other : BOOLEAN, dry_run : BOOLEAN,
             fs : [ExifExts -> {"absent", "empty", "orig", "other"}]] :
          /\ i.fs \in ExifFileSystems(i.file_ext, i.real)
          /\ i.call = "fix_file_extension" => ~i.date /\ ~i.other /\ ~i.dry_run }

InitExif ==
    /\ InitQuiet
    /\ cacheFile = NoFile
    /\ HAS_IMAGE_HASH = TRUE
    /\ NameIdle /\ SimIdle /\ hash_call = NoHashCall /\ loaded = NotLoaded
    /\ copy_call = NoCopyCall /\ CrashIdle /\ ThreadIdle /\ CancelIdle
    /\ rd_call = NoRemoveCall /\ idx_call = NoIndexCall /\ PhotosIdle
    /\ ex_in \in ExifInputs
    /\ ex_fs = ex_in.fs
    /\ ex_pc = "start"
    /\ ex_path = ex_in.file_ext
    /\ ex_fails = NoFailure
    /\ ex_runs = <<>>
    /\ ex_ret = NotReturnedYet

oldRunVars == <<crashVars, threadVars, cancelVars>>

exifQuiet == <<quietVars, oldRunVars, rd_call, idx_call, photoVars>>

Returns(value) == [done |-> TRUE, value |-> value]

\* fix_file_extension(file_path)
FX_Call ==
    /\ ex_pc = "start"
    /\ ex_in.call = "fix_file_extension"
    /\ \E fails \in Failures :
       \E r \in {fix_file_extension(ex_fs, ex_in.file_ext, ex_in.real, fails)} :
          /\ ex_fs' = r.fs
          /\ ex_path' = r.path
          /\ ex_fails' = fails
    /\ ex_pc' = "returned"
    /\ ex_ret' = Returns(TRUE)
    /\ UNCHANGED <<ex_in, ex_runs, exifQuiet>>

\* lines 213-292: no arguments, the extension check, the argument list, the
\* dry run
AM_Begin ==
    /\ ex_pc = "start"
    /\ ex_in.call = "apply_metadata"
    /\ IF ~ex_in.date /\ ~ex_in.other
       THEN /\ ex_pc' = "returned" /\ ex_ret' = Returns(FALSE)
            /\ UNCHANGED <<ex_fs, ex_path, ex_fails>>
       ELSE /\ \E fails \in Failures :
               \E r \in {AfterExtensionCheck(ex_fs, ex_in.file_ext, ex_in.real, fails)} :
                  /\ ex_fs' = r.fs
                  /\ ex_path' = IF r.fs[r.path] # "absent" THEN r.path ELSE ex_in.file_ext
                  /\ ex_fails' = fails
            /\ IF ex_in.dry_run
               THEN ex_pc' = "returned" /\ ex_ret' = Returns(TRUE)
               ELSE ex_pc' = "full attempt" /\ ex_ret' = ex_ret
    /\ UNCHANGED <<ex_in, ex_runs, exifQuiet>>

\* lines 294-325: exiftool with the adjusted arguments
AM_Full ==
    /\ ex_pc = "full attempt"
    /\ \E outcome \in Outcomes :
          /\ ex_runs' = Append(ex_runs, [args |-> "full", outcome |-> outcome])
          /\ IF outcome = "ok" THEN ex_pc' = "returned" /\ ex_ret' = Returns(TRUE)
             ELSE IF outcome = "error" \/ ~ex_in.date
                  THEN ex_pc' = "returned" /\ ex_ret' = Returns(FALSE)
             ELSE IF outcome = "timeout"
                  THEN ex_pc' = "dates after timeout" /\ ex_ret' = ex_ret
                  ELSE ex_pc' = "dates after failure" /\ ex_ret' = ex_ret
    /\ UNCHANGED <<ex_in, ex_fs, ex_path, ex_fails, exifQuiet>>

\* lines 300-316: exiftool with the date arguments after the timeout; its
\* result is the result that line 314 tests
AM_DatesAfterTimeout ==
    /\ ex_pc = "dates after timeout"
    /\ \E outcome \in Outcomes :
          /\ ex_runs' = Append(ex_runs, [args |-> "dates", outcome |-> outcome])
          /\ IF outcome = "ok" THEN ex_pc' = "returned" /\ ex_ret' = Returns(TRUE)
             ELSE IF outcome = "fail"
                  THEN ex_pc' = "dates after failure" /\ ex_ret' = ex_ret
                  ELSE ex_pc' = "returned" /\ ex_ret' = Returns(FALSE)
    /\ UNCHANGED <<ex_in, ex_fs, ex_path, ex_fails, exifQuiet>>

\* lines 326-368: exiftool with the date arguments after a non-zero exit
\* status; False whatever it does
AM_DatesAfterFailure ==
    /\ ex_pc = "dates after failure"
    /\ \E outcome \in Outcomes :
          ex_runs' = Append(ex_runs, [args |-> "dates", outcome |-> outcome])
    /\ ex_pc' = "returned"
    /\ ex_ret' = Returns(FALSE)
    /\ UNCHANGED <<ex_in, ex_fs, ex_path, ex_fails, exifQuiet>>

NextExif == FX_Call \/ AM_Begin \/ AM_Full \/ AM_DatesAfterTimeout \/ AM_DatesAfterFailure

SpecExif == InitExif /\ [][NextExif]_vars

(***************************************************************************)
(* find_duplicates(directory) followed by remove_duplicates(duplicates,    *)
(* dry_run, force_remove_numbered), image_utils.py:902-1019, on the dict   *)
(* that find_duplicates returned, when that dict is not empty.             *)
(***************************************************************************)
RemoveNames == {VACATION_JPG, VACATION_1_JPG, VACATION_PNG, B_JPG}

\* two or three files holding the two pictures that share size and first KiB
RemoveDirs ==
    { d \in DirsOf(RemoveNames, 2) \cup DirsOf(RemoveNames, 3) :
          \A i \in 1..Len(d) : d[i].content \in PairContents }

InitRemove ==
    /\ newDir \in RemoveDirs
    /\ InitCommon
    /\ rd_call = NoRemoveCall

rdQuiet == <<cacheFile, HAS_IMAGE_HASH, similarity, lastDup, prevDup, runs, edits, pairVars,
             nameVars, simVars, hash_call, loaded, copy_call, oldRunVars, exifVars, idx_call,
             photoVars>>

RD_FindDuplicates ==
    /\ runs = 0
    /\ FindDuplicatesRun
    /\ UNCHANGED rd_call

RD_RemoveDuplicates ==
    /\ lastDup.valid
    /\ ~rd_call.done
    /\ Len(lastDup.result) > 0
    /\ \E dry_run, force_remove_numbered \in BOOLEAN :
       \E r \in {remove_duplicates(newDir, lastDup.result, dry_run, force_remove_numbered)} :
          /\ newDir' = r.dir
          /\ rd_call' = [done |-> TRUE, before |-> newDir, duplicates |-> lastDup.result,
                         dry_run |-> dry_run, force_remove_numbered |-> force_remove_numbered,
                         files_removed |-> r.removed]
    /\ lastOp' = "remove_duplicates"
    /\ UNCHANGED rdQuiet

NextRemove == RD_FindDuplicates \/ RD_RemoveDuplicates

SpecRemove == InitRemove /\ [][NextRemove]_vars

(***************************************************************************)
(* Calls of MetadataService.index_files(directory) in one process,         *)
(* metadata_service.py:114-200, on the directories new_dir and old_dir.    *)
(* _indexed_files and _indexed_directories are class variables (93-94).    *)
(***************************************************************************)
MaxIndexCalls == 3

IndexedDirs ==
    { d \in DirsOf({A_JPG, B_JPG, C_PNG}, 1) \cup DirsOf({A_JPG, B_JPG, C_PNG}, 2) :
          \A i \in 1..Len(d) : d[i].content.size = 7000 /\ d[i].mtime = 1 }

InitIndex ==
    /\ newDir \in IndexedDirs
    /\ cacheFile = NoFile
    /\ HAS_IMAGE_HASH = TRUE
    /\ similarity = 98
    /\ lastDup = NoCall /\ prevDup = NoCall /\ runs = 0 /\ edits = 0
    /\ lastOp = "init"
    /\ PairIdle
    /\ oldDir \in IndexedDirs
    /\ ExtIdle

DirectoryNamed(directory) == IF directory = "new_dir" THEN newDir ELSE oldDir

idxQuiet == <<newDir, dupVars, oldDir, pc, cursor, new_files_dict, new_files_list, pairs,
              processed_count, json_count, match_count, hash_match_count, name_match_count,
              file_hash_cache, processed_log, attempts, startDir, lastRun, prevRun, pairRuns,
              renamed, nameVars, simVars, hash_call, loaded, copy_call, oldRunVars, exifVars,
              rd_call, photoVars>>

IndexFilesCall ==
    /\ idx_call.n < MaxIndexCalls
    /\ \E directory \in {"new_dir", "old_dir"} :
       \E result \in {index_files_of(directory, DirectoryNamed(directory),
                                     indexed_files, indexed_directories)} :
          /\ indexed_files' = result
          /\ indexed_directories' = indexed_directories \cup {directory}
          /\ idx_call' = [n |-> idx_call.n + 1, directory |-> directory, result |-> result]
    /\ lastOp' = "index_files"
    /\ UNCHANGED idxQuiet

NextIndex == IndexFilesCall

SpecIndex == InitIndex /\ [][NextIndex]_vars

(***************************************************************************)
(* One run of PhotosAppService.import_photos_from_directory(directory,     *)
(* with_albums=True), photos_app_service.py:456-550.  A directory is the   *)
(* sequence of its path components below the argument; an album is a       *)
(* directory with a metadata.json that has a title (lines 369-378); every  *)
(* directory holds at most one photo file, named by its directory.         *)
(***************************************************************************)
PhotoDirs == {<<>>, <<"A">>, <<"A", "S">>, <<"B">>}

\* os.walk(directory), top down, the sub-directories in either order
WalkOrders ==
    { <<<<>>, <<"A">>, <<"A", "S">>, <<"B">>>>, <<<<>>, <<"B">>, <<"A">>, <<"A", "S">>>> }

IsUnder(d, top) == Len(top) <= Len(d) /\ \A i \in 1..Len(top) : d[i] = top[i]

\* line 385: album_paths.sort by depth, a stable sort
RECURSIVE InsertByDepth(_, _)
InsertByDepth(sorted, d) ==
    IF Len(sorted) = 0 THEN <<d>>
    ELSE IF Len(d) < Len(sorted[1]) THEN <<d>> \o sorted
    ELSE <<sorted[1]>> \o InsertByDepth(Tail(sorted), d)

RECURSIVE SortByDepth(_)
SortByDepth(ds) ==
    IF Len(ds) = 0 THEN <<>>
    ELSE InsertByDepth(SortByDepth(Slice(ds, 1, Len(ds) - 1)), ds[Len(ds)])

\* extract_album_metadata, lines 354-425: the album paths; every album of
\* album_paths is appended once (lines 396, 411, 419)
extract_album_metadata(tree) ==
    SortByDepth(SelectSeq(tree.walk, LAMBDA d : tree.album[d]))

\* lines 500-507: the photo files that os.walk(album_path) yields
PhotosUnder(tree, top) == SelectSeq(tree.walk, LAMBDA d : IsUnder(d, top) /\ tree.photo[d])

PhotoTrees ==
    { t \in [walk : WalkOrders, album : [PhotoDirs -> BOOLEAN], photo : [PhotoDirs -> BOOLEAN],
             progress : SUBSET (PhotoDirs \ {<<>>})] :
          /\ ~t.album[<<>>]
          /\ \A d \in t.progress : t.album[d] }

InitPhotos ==
    /\ InitQuiet
    /\ cacheFile = NoFile
    /\ HAS_IMAGE_HASH = TRUE
    /\ NameIdle /\ SimIdle /\ hash_call = NoHashCall /\ loaded = NotLoaded
    /\ copy_call = NoCopyCall /\ CrashIdle /\ ThreadIdle /\ CancelIdle
    /\ ExifIdle /\ rd_call = NoRemoveCall /\ idx_call = NoIndexCall
    /\ ph_tree \in PhotoTrees
    /\ ph_pc = "albums"
    /\ ph_i = 1
    /\ ph_queue = <<>>
    /\ ph_progress = ph_tree.progress
    /\ ph_submitted = <<>>

photoQuiet == <<quietVars, oldRunVars, exifVars, rd_call, idx_call, ph_tree>>

CurrentAlbum == extract_album_metadata(ph_tree)[ph_i]

\* lines 485-497: the next album; one found in progress is skipped
PH_AlbumBegin ==
    /\ ph_pc = "albums"
    /\ ph_i <= Len(extract_album_metadata(ph_tree))
    /\ IF CurrentAlbum \in ph_progress
       THEN ph_i' = ph_i + 1 /\ UNCHANGED <<ph_pc, ph_queue>>
       ELSE /\ ph_pc' = "photos"
            /\ ph_queue' = PhotosUnder(ph_tree, CurrentAlbum)
            /\ ph_i' = ph_i
    /\ UNCHANGED <<ph_progress, ph_submitted, photoQuiet>>

\* lines 500-519: one photo of the album is handed to import_photo_to_album
PH_AlbumPhoto ==
    /\ ph_pc = "photos"
    /\ Len(ph_queue) > 0
    /\ ph_submitted' = Append(ph_submitted, [photo |-> ph_queue[1], album |-> <<CurrentAlbum>>])
    /\ ph_queue' = Tail(ph_queue)
    /\ UNCHANGED <<ph_pc, ph_i, ph_progress, photoQuiet>>

\* lines 526-527: the album is recorded and the progress file is saved
PH_AlbumEnd ==
    /\ ph_pc = "photos"
    /\ Len(ph_queue) = 0
    /\ ph_progress' = ph_progress \cup {CurrentAlbum}
    /\ ph_i' = ph_i + 1
    /\ ph_pc' = "albums"
    /\ UNCHANGED <<ph_queue, ph_submitted, photoQuiet>>

\* line 530: the walk of the loose photos begins
PH_LooseBegin ==
    /\ ph_pc = "albums"
    /\ ph_i > Len(extract_album_metadata(ph_tree))
    /\ ph_pc' = "loose"
    /\ ph_i' = 1
    /\ UNCHANGED <<ph_queue, ph_progress, ph_submitted, photoQuiet>>

\* lines 530-546: one directory of the walk; a root found in progress is
\* skipped, the photo of another root is handed to import_photo
PH_LooseDir ==
    /\ ph_pc = "loose"
    /\ ph_i <= Len(ph_tree.walk)
    /\ \E root \in {ph_tree.walk[ph_i]} :
          ph_submitted' = IF root \notin ph_progress /\ ph_tree.photo[root]
                          THEN Append(ph_submitted, [photo |-> root, album |-> <<>>])
                          ELSE ph_submitted
    /\ ph_i' = ph_i + 1
    /\ ph_pc' = IF ph_i = Len(ph_tree.walk) THEN "returned" ELSE "loose"
    /\ UNCHANGED <<ph_queue, ph_progress, photoQuiet>>

NextPhotos == PH_AlbumBegin \/ PH_AlbumPhoto \/ PH_AlbumEnd \/ PH_LooseBegin \/ PH_LooseDir

SpecPhotos == InitPhotos /\ [][NextPhotos]_vars

(***************************************************************************)
(* Properties of find_duplicates                                           *)
(***************************************************************************)
\* the members of group i of a returned dict: the original and its duplicates
GroupMembers(d, i) == {d[i][1]} \cup SeqToSet(d[i][2])

SameGroup(d, p, q) == \E i \in 1..Len(d) : {p, q} \subseteq GroupMembers(d, i)

\* a returned dict as the set of its (original, duplicates) items
DictItems(d) == {d[i] : i \in 1..Len(d)}

MtimeIn(dir, n) == EntryOf(dir, n).mtime

\* the signature the last run used for file n
SigUsed(call, n) ==
    LET hashes == HashCacheAfter(call.dir, call.cacheBefore, HAS_IMAGE_HASH)
    IN IF DictHas(hashes, n) THEN DictGet(hashes, n) ELSE NoneSig

\* n had no cache entry when the run started, or one computed from the
\* content n has now
FreshFor(call, n) ==
    LET cached == load_image_hashes(call.cacheBefore)
    IN DictHas(cached, n) =>
           DictGet(cached, n) = compute_hash_for_file(call.dir, n, HAS_IMAGE_HASH)

SameKind(p, q) == is_image_file(p) = is_image_file(q)

\* C1: in the dict find_duplicates returns no path is a duplicate under two
\* originals, no path is the original of one group and a duplicate in
\* another, and every original has at least one duplicate.
C1_NoFileInTwoGroups ==
    lastDup.valid =>
        LET d == lastDup.result
        IN /\ \A i \in 1..Len(d) : Len(d[i][2]) >= 1
           /\ \A i, j \in 1..Len(d) :
                 i # j => /\ d[i][1] \notin SeqToSet(d[j][2])
                          /\ SeqToSet(d[i][2]) \cap SeqToSet(d[j][2]) = {}

\* C2 as stated: the original of a group is its member with the earliest
\* modification time and, among the members sharing that time, the one with
\* the lexicographically smallest path.
C2_EarliestThenSmallestPath ==
    lastDup.valid =>
        \A i \in 1..Len(lastDup.result) : \A m \in SeqToSet(lastDup.result[i][2]) :
            LET o == lastDup.result[i][1]
            IN \/ MtimeIn(lastDup.dir, o) < MtimeIn(lastDup.dir, m)
               \/ MtimeIn(lastDup.dir, o) = MtimeIn(lastDup.dir, m) /\ StrLess(o, m)

\* C2 amended: the original of a group is its member with the earliest
\* modification time and, among the members sharing that time, the one the
\* directory walk yields first; the others are the duplicates.
C2_EarliestThenWalkOrder ==
    lastDup.valid =>
        \A i \in 1..Len(lastDup.result) : \A m \in SeqToSet(lastDup.result[i][2]) :
            LET o == lastDup.result[i][1]
            IN \/ MtimeIn(lastDup.dir, o) < MtimeIn(lastDup.dir, m)
               \/ /\ MtimeIn(lastDup.dir, o) = MtimeIn(lastDup.dir, m)
                  /\ WalkPos(lastDup.dir, o) < WalkPos(lastDup.dir, m)

\* a group whose original shares its modification time with a duplicate
\* and one whose original is strictly older
C2_Witness ==
    /\ lastDup.valid
    /\ \E i \in 1..Len(lastDup.result) : \E m \in SeqToSet(lastDup.result[i][2]) :
          MtimeIn(lastDup.dir, lastDup.result[i][1]) = MtimeIn(lastDup.dir, m)
    /\ \E i \in 1..Len(lastDup.result) : \E m \in SeqToSet(lastDup.result[i][2]) :
          MtimeIn(lastDup.dir, lastDup.result[i][1]) < MtimeIn(lastDup.dir, m)

\* C3 as stated: two media files with byte-identical content are in the
\* same group, whatever the threshold and whatever cache file was loaded.
C3_IdenticalAlwaysGrouped ==
    lastDup.valid =>
        \A p, q \in SeqToSet(MediaNames(lastDup.dir)) :
            (p # q /\ EntryOf(lastDup.dir, p).content = EntryOf(lastDup.dir, q).content)
                => SameGroup(lastDup.result, p, q)

\* C3 amended: two media files with byte-identical content that are both
\* images or both videos, and whose cache entries, if any, were computed
\* from their present content, are in the same group whatever the threshold.
C3_IdenticalFreshGrouped ==
    lastDup.valid =>
        \A p, q \in SeqToSet(MediaNames(lastDup.dir)) :
            ( /\ p # q
              /\ EntryOf(lastDup.dir, p).content = EntryOf(lastDup.dir, q).content
              /\ SameKind(p, q)
              /\ FreshFor(lastDup, p) /\ FreshFor(lastDup, q) )
                => SameGroup(lastDup.result, p, q)

\* a second run, reading the cache file the first run wrote, groups two
\* identical files at the default threshold
C3_Witness ==
    /\ lastDup.valid /\ prevDup.valid
    /\ similarity = 98
    /\ lastDup.cacheBefore # NoFile
    /\ \E p, q \in SeqToSet(MediaNames(lastDup.dir)) :
          /\ p # q
          /\ EntryOf(lastDup.dir, p).content = EntryOf(lastDup.dir, q).content
          /\ SameKind(p, q)
          /\ FreshFor(lastDup, p) /\ FreshFor(lastDup, q)
          /\ SameGroup(lastDup.result, p, q)

\* C4: two successive runs over an unchanged directory, the second reading
\* the cache file the first left, return the same originals with the same
\* duplicates.
C4_Idempotent ==
    (lastDup.valid /\ prevDup.valid /\ lastDup.dir = prevDup.dir)
        => DictItems(lastDup.result) = DictItems(prevDup.result)

\* two successive runs over the same directory that report a group, the
\* second one served from the cache file
C4_Witness ==
    /\ lastDup.valid /\ prevDup.valid /\ lastDup.dir = prevDup.dir
    /\ Len(lastDup.result) > 0
    /\ lastDup.cacheBefore # NoFile

(***************************************************************************)
(* Properties of a pairing run                                             *)
(***************************************************************************)
AttemptsOf(run) == {run.attempts[i] : i \in 1..Len(run.attempts)}

\* find_metadata_pairs has just returned; lastRun is that run
Returned == pc = "idle" /\ lastOp = "record" /\ lastRun.valid

\* the key the loop looks the title up under, line 682 and 695
TitleKey(title) == Lower(get_base_filename(title))

\* the keys a target file is entered under in the name dictionary
StemKeys(n) == {Lower(SplitExt(n)[1]), CleanName(Lower(SplitExt(n)[1]))}

\* some media file of dir is entered under key k
HasKey(dir, k) == \E n \in SeqToSet(MediaNames(dir)) : k \in StemKeys(n)

\* the name find_matching_file looks a sidecar up under, lines 230-239
SidecarBase(json) ==
    Lower(IF EndsWith(json, SupplementalMetadataJson)
          THEN RemoveAll(json, SupplementalMetadataJson)
          ELSE get_base_filename(json))

\* the keys a target file is entered under in the index
IndexKeys(n) ==
    {Lower(get_base_filename(n)), Lower(SplitExt(n)[1]),
     CleanName(Lower(get_base_filename(n)))}

\* the index lookup of the sidecar's file name finds a file of dir: some key
\* is the name, a prefix of it or an extension of it
IndexFinds(dir, json) ==
    \E n \in SeqToSet(MediaNames(dir)) : \E k \in IndexKeys(n) :
        StartsWith(k, SidecarBase(json)) \/ StartsWith(SidecarBase(json), k)

\* the hash step finds a target for the sidecar: its media file lies next to
\* it and a listed target has that name, that stem, or a signature as
\* similar as the threshold asks
HashFinds(json, listed, dir) ==
    /\ MediaFileOf(json) # <<>>
    /\ \E n \in SeqToSet(MediaNames(listed)) :
          \/ n = MediaFileOf(json)[1]
          \/ SplitExt(n)[1] = SplitExt(MediaFileOf(json)[1])[1]
          \/ LET sim == hash_similarity(
                            compute_hash_for_file(oldDir, MediaFileOf(json)[1], HAS_IMAGE_HASH),
                            compute_hash_for_file(dir, n, HAS_IMAGE_HASH), HAS_IMAGE_HASH)
             IN sim > 0 /\ SimAtLeast(sim, similarity)

\* C5: neither find_duplicates nor a pairing run with default arguments
\* removes a file: the target directory holds the same files after the
\* operation as before it.
C5_NoFileRemoved ==
    [][lastOp' \in {"find_duplicates", "find_metadata_pairs", "record"}
           => DirNames(newDir') = DirNames(newDir)]_vars

\* C6 as stated: a record for which a name-based step (the dictionary
\* lookup of the title, or the index lookup of the sidecar name) finds a
\* target is paired with method name and hash matching is not attempted.
C6_AnyNameMatchNeverByHash ==
    Returned =>
        \A a \in AttemptsOf(lastRun) :
            (HasKey(lastRun.startDir, TitleKey(a.title)) \/ IndexFinds(lastRun.endDir, a.json_file))
                => a.match_method = "name" /\ ~a.hash_tried

\* C6 amended: hash matching is attempted for a record only after the
\* lookup of its title in the name dictionary has failed; a record whose
\* title key is the lower-cased stem of a target media file, with or
\* without a trailing " (N)", is paired with method name and hash matching
\* is not attempted for it.
C6_DictMatchNeverByHash ==
    Returned =>
        \A a \in AttemptsOf(lastRun) :
            HasKey(lastRun.startDir, TitleKey(a.title))
                => a.match_method = "name" /\ a.matching_file # <<>> /\ ~a.hash_tried

\* a record whose media file lies next to it, so that hash matching could
\* run, is paired by the dictionary lookup
C6_Witness ==
    /\ Returned
    /\ \E a \in AttemptsOf(lastRun) :
          /\ HasKey(lastRun.startDir, TitleKey(a.title))
          /\ MediaFileOf(a.json_file) # <<>>
          /\ a.match_method = "name" /\ ~a.hash_tried

\* C7: no target path is the target of two pairs of the returned list.
C7_NoTargetInTwoPairs ==
    Returned =>
        \A i, j \in 1..Len(lastRun.pairs) :
            i # j => lastRun.pairs[i][2] # lastRun.pairs[j][2]

\* the title is no key of a target and unrelated to every key
TitleMatchesNothing(dir, title) ==
    \A n \in SeqToSet(MediaNames(dir)) : \A k \in StemKeys(n) \cup IndexKeys(n) :
        ~StartsWith(k, TitleKey(title)) /\ ~StartsWith(TitleKey(title), k)

\* the loop is about to process a sidecar that parses
AtRecord == pc = "records" /\ IsSidecarName(oldDir[cursor].name) /\ oldDir[cursor].valid

C9_VacationPairedAt95 ==
    Returned =>
        \A a \in AttemptsOf(lastRun) :
            (a.title = VACATION_JPG /\ Exists(lastRun.startDir, VACATION_1_JPG))
                => /\ a.matching_file = <<VACATION_1_JPG>>
                   /\ a.match_method = "name"
                   /\ a.similarity = 95

\* C9 amended: a record titled vacation.jpg and a target collection in
\* which "vacation (1).jpg" is the only media file whose lower-cased stem,
\* with or without a trailing " (N)", is "vacation" give a pair of the
\* record with that file, method name, similarity 1.0.
C9_VacationPairedAt100 ==
    Returned =>
        \A a \in AttemptsOf(lastRun) :
            ( /\ a.title = VACATION_JPG
              /\ Exists(lastRun.startDir, VACATION_1_JPG)
              /\ \A n \in SeqToSet(MediaNames(lastRun.startDir)) :
                     Vacation \in StemKeys(n) => n = VACATION_1_JPG )
                => /\ a.matching_file = <<VACATION_1_JPG>>
                   /\ a.match_method = "name"
                   /\ a.similarity = 100
                   /\ \E i \in 1..Len(lastRun.pairs) :
                          lastRun.pairs[i] = <<a.json_file, VACATION_1_JPG, a.title>>

\* a run over a collection holding "vacation (1).jpg" and b.jpg paired the
\* record titled vacation.jpg
C9_Witness ==
    /\ Returned
    /\ Exists(lastRun.startDir, VACATION_1_JPG) /\ Exists(lastRun.startDir, B_JPG)
    /\ \E a \in AttemptsOf(lastRun) :
          a.title = VACATION_JPG /\ a.matching_file = <<VACATION_1_JPG>> /\ a.similarity = 100

\* the last two runs are the one before and the one after the rename
AcrossRename ==
    /\ Returned /\ prevRun.valid /\ renamed.valid
    /\ Exists(prevRun.endDir, renamed.from)
    /\ Exists(lastRun.startDir, renamed.to)

\* C10 as stated: a record paired by name with a target file through its
\* title is, after the file got " (N)" added before its extension, paired
\* by name with the renamed file, whatever else the collection holds.
C10_RenameKeepsNamePairing ==
    AcrossRename =>
        \A a \in AttemptsOf(prevRun) :
            (a.matching_file = <<renamed.from>> /\ a.match_method = "name" /\ a.similarity = 100)
                => \E b \in AttemptsOf(lastRun) :
                       /\ b.json_file = a.json_file
                       /\ b.matching_file = <<renamed.to>>
                       /\ b.match_method = "name"

\* C10 amended: the same, provided the stem of the file had no trailing
\* "(N)" before the rename and, after it, no other media file of the
\* collection has the title's key as its lower-cased stem, with or without
\* a trailing " (N)".
C10_RenameKeepsNamePairingAlone ==
    AcrossRename =>
        \A a \in AttemptsOf(prevRun) :
            ( /\ a.matching_file = <<renamed.from>>
              /\ a.match_method = "name" /\ a.similarity = 100
              /\ TrailingNumberStart(SplitExt(renamed.from)[1]) = 0
              /\ \A n \in SeqToSet(MediaNames(lastRun.startDir)) :
                     TitleKey(a.title) \in StemKeys(n) => n = renamed.to )
                => \E b \in AttemptsOf(lastRun) :
                       /\ b.json_file = a.json_file
                       /\ b.matching_file = <<renamed.to>>
                       /\ b.match_method = "name"

\* vacation.jpg, paired by its title, was renamed "vacation (1).jpg" and
\* the next run paired the record with the renamed file
C10_Witness ==
    /\ AcrossRename
    /\ renamed.from = VACATION_JPG /\ renamed.to = VACATION_1_JPG
    /\ Len(lastRun.startDir) = 2
    /\ \E a \in AttemptsOf(prevRun) : \E b \in AttemptsOf(lastRun) :
          /\ a.matching_file = <<renamed.from>> /\ a.similarity = 100
          /\ b.json_file = a.json_file
          /\ b.matching_file = <<renamed.to>> /\ b.match_method = "name"

(***************************************************************************)
(* Properties of file_utils.find_matching_file                             *)
(***************************************************************************)
NameReturned == name_result # "none yet"

ListedFiles == {target_files[k] : k \in 1..Len(target_files)}

\* the strategies as the specification ranks them: 1 exact, 2
\* prefix-stripped, 3 edited-variant, 4 containment, 5 numeric-sequence,
\* 6 approximate
RankMatches(k, c, f) ==
    LET long == Len(CleanAlnum(get_base_filename(f))) >= 3
    IN CASE k = 1 -> f \in SeqToSet(ExactCandidates(c)) \/ SameBase(c, f)
         [] k = 2 -> /\ WithoutPrefix(c) # <<>>
                     /\ \/ f \in SeqToSet(ExactCandidates(WithoutPrefix(c)[1]))
                        \/ SameBase(WithoutPrefix(c)[1], f)
         [] k = 3 -> f \in SeqToSet(AppleCandidates(c))
         [] k = 4 -> RawContainment(c, f) \/ (long /\ CleanContainment(c, f))
         [] k = 5 -> long /\ NumericSequence(c, f)
         [] k = 6 -> long /\ Approximate(c, f)

\* C11: the returned file is a match of the highest-ranked strategy
\* (exact, prefix-stripped, edited-variant, containment, numeric-sequence,
\* approximate) that matches any target file
C11_HighestRankWins ==
    (NameReturned /\ name_result # <<>>) =>
        \A k \in 1..6 :
            ((\E f \in ListedFiles : RankMatches(k, candidate, f))
             /\ \A j \in 1..(k - 1) : \A f \in ListedFiles : ~RankMatches(j, candidate, f))
            => RankMatches(k, candidate, name_result[1].file)

\* the names the code tries, in its order: the candidate without its
\* prefix, then the candidate; a name of fewer than 3 cleaned characters is
\* not tried
TriedNames ==
    SelectSeq(WithoutPrefix(candidate) \o <<candidate>>,
              LAMBDA n : Len(CleanAlnum(n)) >= 3)

\* the steps of the code for one name, in its order: 1 the name with a
\* known extension, 2 the Apple edited variant, 3 equal base name, 4 raw
\* containment, 5 the loop of cleaned containment, numeric sequence and
\* approximate match
StepMatches(s, n, f) ==
    CASE s = 1 -> f \in SeqToSet(ExactCandidates(n))
      [] s = 2 -> f \in SeqToSet(AppleCandidates(n))
      [] s = 3 -> SameBase(n, f)
      [] s = 4 -> RawContainment(n, f)
      [] s = 5 -> /\ Len(CleanAlnum(get_base_filename(f))) >= 3
                  /\ \/ CleanContainment(n, f) \/ NumericSequence(n, f) \/ Approximate(n, f)

StepOf(how) ==
    CASE how = "exact" -> 1 [] how = "edited" -> 2 [] how = "exact_ci" -> 3
      [] how = "containment" -> 4 [] OTHER -> 5

\* step s on the i-th tried name matches some listed file
Fires(i, s) == \E f \in ListedFiles : StepMatches(s, TriedNames[i], f)

\* C11 (amended): the steps are applied in the order of the code, first to
\* the candidate without its prefix and then to the candidate, each step
\* examining all target files before the next one: the returned file is a
\* match of the first step in that order that matches any target file, and
\* in the loops over the listing it is the first such file of the listing;
\* nothing is returned exactly when no step matches any file
C11_FirstStepInCodeOrderWins ==
    NameReturned =>
        /\ name_result = <<>> <=>
              \A i \in 1..Len(TriedNames) : \A s \in 1..5 : ~Fires(i, s)
        /\ name_result # <<>> =>
              \E i \in 1..Len(TriedNames) :
                 LET r == name_result[1]
                     s == StepOf(r.how)
                 IN /\ r.name = TriedNames[i]
                    /\ StepMatches(s, r.name, r.file)
                    /\ \A j \in 1..(i - 1) : \A t \in 1..5 : ~Fires(j, t)
                    /\ \A t \in 1..(s - 1) : ~Fires(i, t)
                    /\ s >= 3 =>
                          \E k \in 1..Len(target_files) :
                             /\ target_files[k] = r.file
                             /\ \A m \in 1..(k - 1) : ~StepMatches(s, r.name, target_files[m])

\* C11 witness: the file returned matched in the last loop although raw
\* containment, tried before it, was examined on every file, and another
\* listed file passes a check of the last loop too
C11_Witness ==
    /\ NameReturned /\ name_result # <<>>
    /\ StepOf(name_result[1].how) = 5
    /\ \E f \in ListedFiles : f # name_result[1].file /\ StepMatches(5, name_result[1].name, f)
    /\ \A f \in ListedFiles : ~StepMatches(4, name_result[1].name, f)

\* C12: containment, numeric-sequence and approximate matches are never
\* returned when the cleaned form of the candidate name or of the indexed
\* name has fewer than 3 characters
C12_NoFuzzyMatchOnShortCleaned ==
    (NameReturned /\ name_result # <<>>
        /\ name_result[1].how \in {"containment", "containment_clean", "numeric", "approximate"})
    => /\ Len(CleanAlnum(name_result[1].name)) >= 3
       /\ Len(CleanAlnum(get_base_filename(name_result[1].file))) >= 3

\* C12 (amended): such matches are never returned when the cleaned form of
\* the candidate name has fewer than 3 characters; the raw containment loop
\* skips an indexed name whose base name has fewer than 3 characters, the
\* last loop one whose cleaned base name has fewer than 3 characters
C12_ShortGuardsOfTheCode ==
    (NameReturned /\ name_result # <<>>)
    => LET r == name_result[1]
       IN /\ r.how \in {"containment", "containment_clean", "numeric", "approximate"}
             => Len(CleanAlnum(r.name)) >= 3
          /\ r.how = "containment" => Len(get_base_filename(r.file)) >= 3
          /\ r.how \in {"containment_clean", "numeric", "approximate"}
             => Len(CleanAlnum(get_base_filename(r.file))) >= 3

\* C12 witness: a file is returned by the last loop while a listed file of
\* fewer than 3 cleaned characters, which the loop skipped, would have
\* passed its checks
C12_Witness ==
    /\ NameReturned /\ name_result # <<>>
    /\ name_result[1].how \in {"containment_clean", "numeric", "approximate"}
    /\ \E k \in 1..Len(target_files) :
          /\ Len(CleanAlnum(get_base_filename(target_files[k]))) < 3
          /\ ThirdPass_NoShortGuard(name_result[1].name, target_files[k])
          /\ \E m \in (k + 1)..Len(target_files) : target_files[m] = name_result[1].file

(***************************************************************************)
(* Properties of hash_similarity                                           *)
(***************************************************************************)
Compared == sim_out.done

\* C13: hash_similarity(h, h) = 1.0 for every signature h and
\* hash_similarity(a, b) = hash_similarity(b, a) for all signatures a, b
C13_ReflexiveSymmetric ==
    Compared =>
        /\ sim_in[1] # NoneSig => sim_out.aa = MaxDistance
        /\ sim_out.ab = sim_out.ba

\* C13 witness: two different '0x' strings of matrices of different sides
\* were compared in both orders
C13_Witness ==
    /\ Compared /\ HAS_IMAGE_HASH
    /\ StartsWith0x(sim_in[1]) /\ StartsWith0x(sim_in[2])
    /\ Shape(sim_in[1]) # Shape(sim_in[2])
    /\ sim_in[1].bits # sim_in[2].bits

\* C14: for two perceptual signatures made by compute_image_hash the result
\* is 1 - hammingDistance/maxDistance, for two byte-sample signatures it is
\* 1.0 if they are equal and 0.0 otherwise
C14_GradedForPerceptual ==
    Compared =>
        /\ (HAS_IMAGE_HASH /\ sim_in[1].alg = "phash" /\ sim_in[2].alg = "phash")
              => sim_out.ab = MaxDistance - HammingDistance(sim_in[1], sim_in[2])
        /\ (sim_in[1].alg = "md5" /\ sim_in[2].alg = "md5")
              => sim_out.ab = (IF sim_in[1] = sim_in[2] THEN MaxDistance ELSE 0)

(***************************************************************************)
(* Properties of find_matching_file_by_hash                                *)
(***************************************************************************)
\* the similarity of a target file to the source file of the last call,
\* both signatures computed from the files
SimilarityTo(target) ==
    hash_similarity(compute_hash_for_file(oldDir, hash_call.source, HAS_IMAGE_HASH),
                    compute_hash_for_file(newDir, target, HAS_IMAGE_HASH),
                    HAS_IMAGE_HASH)

Qualifying == {t \in SeqToSet(MediaNames(newDir)) : SimAtLeast(SimilarityTo(t), similarity)}

\* C15: the returned target has a similarity of at least
\* similarity_threshold to the source, it has the greatest similarity of the
\* qualifying targets, and None is returned when no target qualifies
C15_BestAboveThreshold ==
    (hash_call.done /\ Exists(oldDir, hash_call.source)) =>
        /\ hash_call.result # <<>> =>
              /\ hash_call.result[1] \in Qualifying
              /\ \A t \in Qualifying : SimilarityTo(t) <= SimilarityTo(hash_call.result[1])
        /\ Qualifying = {} => hash_call.result = <<>>

\* the targets that have the file name of the source, or its name without
\* the extension
NamedLikeSource ==
    {t \in SeqToSet(MediaNames(newDir)) :
        t = hash_call.source \/ SplitExt(t)[1] = SplitExt(hash_call.source)[1]}

QualifyingAboveZero == {t \in Qualifying : SimilarityTo(t) > 0}

\* C15 (amended): a target named like the source is returned without any
\* comparison of signatures; otherwise the returned target has a similarity
\* to the source that is at least similarity_threshold and greater than 0
\* and is the greatest among such targets, and None is returned exactly
\* when there is no such target
C15_BestAboveThresholdUnlessNamed ==
    (hash_call.done /\ Exists(oldDir, hash_call.source)) =>
        IF NamedLikeSource # {}
        THEN /\ hash_call.result # <<>>
             /\ hash_call.result[1] \in NamedLikeSource
             /\ \A k \in 1..Len(MediaNames(newDir)) :
                   MediaNames(newDir)[k] = hash_call.result[1] =>
                      \A j \in 1..(k - 1) : MediaNames(newDir)[j] \notin NamedLikeSource
        ELSE /\ hash_call.result # <<>> =>
                   /\ hash_call.result[1] \in QualifyingAboveZero
                   /\ \A t \in QualifyingAboveZero :
                         SimilarityTo(t) <= SimilarityTo(hash_call.result[1])
             /\ QualifyingAboveZero = {} <=> hash_call.result = <<>>

\* C15 witness: the source has the stem of one target, which is returned
\* although its content differs, while another target has the content of
\* the source
C15_Witness ==
    /\ hash_call.done /\ Exists(oldDir, hash_call.source)
    /\ hash_call.result # <<>>
    /\ hash_call.result[1] # hash_call.source
    /\ hash_call.result[1] \in NamedLikeSource
    /\ SimilarityTo(hash_call.result[1]) = 0
    /\ \E t \in SeqToSet(MediaNames(newDir)) : SimilarityTo(t) = MaxDistance

(***************************************************************************)
(* Properties of load_image_hashes                                         *)
(***************************************************************************)
\* the lines after the first that hold two fields or more
RecordLines(file) == {i \in 2..Len(file) : file[i] # BadBytes /\ Len(file[i]) >= 2}

\* nothing of the file was written by save_image_hashes
RandomBytes(file) ==
    /\ file # NoFile /\ Len(file) > 0
    /\ \A i \in 1..Len(file) : file[i] \notin IntactRows \cup {CsvHeader}

\* C16: the load never raises, every line that is an intact record is
\* loaded whatever the other lines are, and a file of random bytes gives an
\* empty cache
C16_CorruptLinesSkippedRandomEmpty ==
    loaded.done =>
        /\ ~loaded.raised
        /\ cacheFile # NoFile =>
              \A i \in 2..Len(cacheFile) :
                 cacheFile[i] \in IntactRows => DictHas(loaded.hashes, cacheFile[i][1])
        /\ (cacheFile # NoFile /\ RandomBytes(cacheFile)) => loaded.hashes = <<>>

\* the entries of the lines 2..k of a file: the keys of the lines of two
\* fields or more, each with the value of the last such line
EntriesOf(file, k, hashes) ==
    /\ DictKeys(hashes) = {file[i][1] : i \in {j \in RecordLines(file) : j <= k}}
    /\ \A i \in RecordLines(file) :
          (i <= k /\ \A m \in RecordLines(file) : (m > i /\ m <= k) => file[m][1] # file[i][1])
          => DictGet(hashes, file[i][1]) = file[i][2]

\* C16 (amended): the load never raises; without bad bytes every line after
\* the first with two fields or more is loaded and the other lines are
\* skipped; bad bytes end the load with the entries of some of the lines
\* before them; a missing file gives an empty cache
C16_NeverRaisesLoadsUpToBadBytes ==
    loaded.done =>
        /\ ~loaded.raised
        /\ cacheFile = NoFile => loaded.hashes = <<>>
        /\ (cacheFile # NoFile /\ FirstBad(cacheFile) = 0)
              => EntriesOf(cacheFile, Len(cacheFile), loaded.hashes)
        /\ (cacheFile # NoFile /\ FirstBad(cacheFile) > 0)
              => \E k \in 0..(FirstBad(cacheFile) - 1) : EntriesOf(cacheFile, k, loaded.hashes)

\* C16 witness: bad bytes between two intact records ended the load, which
\* returned without the record after them
C16_Witness ==
    /\ loaded.done /\ ~loaded.raised
    /\ cacheFile # NoFile /\ Len(cacheFile) = 3
    /\ cacheFile[2] = BadBytes /\ cacheFile[3] \in IntactRows
    /\ loaded.hashes = <<>>
(***************************************************************************)
(* Properties of the hash cache file across runs                           *)
(***************************************************************************)
\* every entry of the cache file before a step is in the file after it,
\* with the same signature
EntriesKept(before, after) ==
    \A i \in 1..Len(load_image_hashes(before)) :
        /\ DictHas(load_image_hashes(after), load_image_hashes(before)[i][1])
        /\ DictGet(load_image_hashes(after), load_image_hashes(before)[i][1])
              = load_image_hashes(before)[i][2]

\* C17: an entry once written to data/image_hashes.csv is still there with
\* the same signature after every later run of find_duplicates,
\* find_metadata_pairs and copy_missing_files
C17_EntriesNeverRemoved == [][EntriesKept(cacheFile, cacheFile')]_vars
(***************************************************************************)
(* Properties of the hash computation phase when it is stopped             *)
(***************************************************************************)
\* signatures computed during the run
ComputedInRun == hash_cache - cached_before

\* those of them that load_image_hashes reads from the cache file
InFileOfRun == IF disk.rows > cached_before THEN disk.rows - cached_before ELSE 0

\* C18: wherever the phase stops, the signatures computed during the run and
\* absent from the cache file are at most one batch, and the cache file holds
\* every row of the save that wrote it
C18_AtMostOneBatchLostFileComplete ==
    hp = "stopped" => /\ ComputedInRun - InFileOfRun <= batch_size
                      /\ disk.rows = disk.of
(***************************************************************************)
(* Properties of the parallel hash computation                             *)
(***************************************************************************)
\* C19: no worker thread writes an in-memory hash cache; every cache write
\* and every flush is made by the orchestrating thread, one flush after the
\* other, and no worker of a batch is queued or running when a flush starts
\* or while it runs
C19_OnlyOrchestratorWritesAndFlushes ==
    /\ \A w \in cache_writes : w.by = "main"
    /\ \A fl \in flush_log : fl.by = "main" /\ fl.workers = {}
    /\ writing => InPool = {}

\* a batch was computed by two workers at once, its signatures were stored
\* and a flush is running
C19_Witness ==
    /\ writing
    /\ max_workers = 2
    /\ Cardinality(cache_writes) >= 2
    /\ routine = "find_metadata_pairs"
(***************************************************************************)
(* Properties of a cancelled run                                           *)
(***************************************************************************)
\* C20: after a KeyboardInterrupt while records are paired or metadata is
\* applied no further record or file is processed, and the pairs and counts
\* accumulated up to the interrupt are returned and reported
C20_PartialResultsReturned ==
    at_cancel.done =>
        /\ processed_count = at_cancel.processed_count
        /\ apply_i = at_cancel.apply_i
        /\ summary.done
        /\ summary.updated = at_cancel.updated /\ summary.failed = at_cancel.failed
        /\ at_cancel.phase = "pairing" =>
              matched_pairs.returned /\ matched_pairs.pairs = at_cancel.pairs
(***************************************************************************)
(* Properties of ExifToolService                                           *)
(***************************************************************************)
AppliedAndReturned == ex_in.call = "apply_metadata" /\ ex_ret.done

\* C21: with dry_run = True and arguments to apply, apply_metadata returns
\* True, runs no exiftool command that writes metadata and leaves every file
\* as it was
C21_DryRunChangesNothing ==
    (AppliedAndReturned /\ ex_in.dry_run /\ (ex_in.date \/ ex_in.other)) =>
        /\ ex_ret.value = TRUE
        /\ ex_runs = <<>>
        /\ ex_fs = ex_in.fs

\* the file exists, its detected type differs from its extension and the
\* correction map covers the pair
Correctable ==
    /\ ex_in.fs[ex_in.file_ext] = "orig"
    /\ ex_in.real # ex_in.file_ext
    /\ ex_in.file_ext \in FixMap(ex_in.real)

FixedAndReturned == ex_in.call = "fix_file_extension" /\ ex_ret.done

C24_RetryStateMachine ==
    /\ Len(ex_runs) <= 2
    /\ \A i \in 1..Len(ex_runs) :
          ex_runs[i].args = "dates" =>
              /\ i = 2
              /\ ex_runs[1].args = "full"
              /\ ex_runs[1].outcome \in {"fail", "timeout"}

\* C25: without dry_run, True is returned only if exiftool with the full
\* adjusted arguments exited with status 0
C25_TrueOnlyAfterFullSuccess ==
    (AppliedAndReturned /\ ~ex_in.dry_run /\ ex_ret.value = TRUE) =>
        \E i \in 1..Len(ex_runs) : ex_runs[i].args = "full" /\ ex_runs[i].outcome = "ok"
(***************************************************************************)
(* Properties of remove_duplicates                                         *)
(***************************************************************************)
\* C23: after remove_duplicates(duplicates, dry_run=False) every key of
\* duplicates that was a file before the call is still a file, whatever
\* force_remove_numbered is
C23_OriginalsKept ==
    (rd_call.done /\ ~rd_call.dry_run) =>
        \A i \in 1..Len(rd_call.duplicates) :
            Exists(rd_call.before, rd_call.duplicates[i][1]) =>
                Exists(newDir, rd_call.duplicates[i][1])

\* the files the call with dry_run=False removes from the same directory
RemovedByRealRun ==
    Len(rd_call.before)
      - Len(remove_duplicates(rd_call.before, rd_call.duplicates, FALSE,
                              rd_call.force_remove_numbered).dir)

\* C30: remove_duplicates(duplicates, dry_run=True) removes no file and
\* returns the number of files the call with dry_run=False would remove
C30_DryRunCountsRealRemovals ==
    (rd_call.done /\ rd_call.dry_run) =>
        /\ newDir = rd_call.before
        /\ rd_call.files_removed = RemovedByRealRun
(***************************************************************************)
(* Properties of MetadataService.index_files                               *)
(***************************************************************************)
\* the paths an index lists
IndexedPaths(idx) == UNION { SeqToSet(idx[i][2]) : i \in 1..Len(idx) }

\* C26: the index that index_files(d) returns is built from d: every path
\* in it lies under d and every media file under d is listed
C26_IndexOfTheDirectoryAsked ==
    idx_call.n > 0 =>
        LET names == MediaNames(DirectoryNamed(idx_call.directory))
        IN IndexedPaths(idx_call.result)
             = { JoinPath(idx_call.directory, names[i]) : i \in 1..Len(names) }
(***************************************************************************)
(* Properties of CopyService.copy_missing_files                            *)
(***************************************************************************)
\* every file of before is a file of after with the same content
FilesKept(before, after) ==
    \A i \in 1..Len(before) :
        /\ Exists(after, before[i].name)
        /\ EntryOf(after, before[i].name).content = before[i].content

\* the files copied by a call that is no dry run are files of new_dir with
\* the content they have in old_dir
CopiesArrived(call, old, after) ==
    call.dry_run \/ \A i \in 1..Len(call.missing) :
                        /\ Exists(after, call.missing[i])
                        /\ EntryOf(after, call.missing[i]).content
                             = EntryOf(old, call.missing[i]).content

\* C27: a call of copy_missing_files leaves every file of new_dir in place
\* with its content, and every old file it copied is a file of new_dir
\* after the call
C27_ExistingFilesUntouched ==
    [][copy_call'.calls = copy_call.calls + 1 =>
           /\ FilesKept(newDir, newDir')
           /\ CopiesArrived(copy_call', oldDir, newDir')]_vars
(***************************************************************************)
(* Properties of PhotosAppService.import_photos_from_directory             *)
(***************************************************************************)
\* the photos submitted so far for the album
SubmittedFor(album) ==
    { ph_submitted[i].photo : i \in { k \in 1..Len(ph_submitted) :
                                          ph_submitted[k].album = <<album>> } }

\* no album of the progress file the run found is processed
RecordedAlbumsSkipped ==
    \A i \in 1..Len(ph_submitted) :
        \A a \in ph_tree.progress : ph_submitted[i].album # <<a>>

\* an album the run recorded has had all its photos submitted
RecordedAfterSubmitted ==
    \A a \in ph_progress \ ph_tree.progress :
        SeqToSet(PhotosUnder(ph_tree, a)) \subseteq SubmittedFor(a)

\* no photo file is submitted twice
SubmittedOnce ==
    \A i, j \in 1..Len(ph_submitted) :
        i # j => ph_submitted[i].photo # ph_submitted[j].photo

\* C28: an album recorded in the progress file is not processed again, an
\* album is recorded only after all its photos were submitted, and each
\* photo file is submitted for import at most once in a run
C28_AlbumsOnceRecordedAfterPhotosOnce ==
    RecordedAlbumsSkipped /\ RecordedAfterSubmitted /\ SubmittedOnce
(***************************************************************************)
(* Properties of the match methods of find_metadata_pairs                  *)
(***************************************************************************)
\* the similarity of the signatures of a file of old_dir and a file of new_dir
PairSimilarity(source, target) ==
    hash_similarity(compute_hash_for_file(oldDir, source, HAS_IMAGE_HASH),
                    compute_hash_for_file(newDir, target, HAS_IMAGE_HASH),
                    HAS_IMAGE_HASH)

\* the target reached the threshold against the media file of the sidecar
ReachedThreshold(a) ==
    /\ MediaFileOf(a.json_file) # <<>>
    /\ SimAtLeast(PairSimilarity(MediaFileOf(a.json_file)[1], a.matching_file[1]), similarity)

\* the target has the file name of the media file of the sidecar, or its
\* name without the extension
NamedLikeMedia(a) ==
    /\ MediaFileOf(a.json_file) # <<>>
    /\ \/ a.matching_file[1] = MediaFileOf(a.json_file)[1]
       \/ SplitExt(a.matching_file[1])[1] = SplitExt(MediaFileOf(a.json_file)[1])[1]

\* the target is what the name dictionary or the index gives for the sidecar
FoundByNameLookup(a) ==
    LET key == Lower(get_base_filename(a.title))
    IN \/ DictHas(new_files_dict, key) /\ a.matching_file = <<DictGet(new_files_dict, key)>>
       \/ a.matching_file = find_matching_file(a.json_file, index_files(newDir, <<>>, FALSE))

MethodCount(method) ==
    Cardinality({i \in 1..Len(attempts) :
                    attempts[i].matching_file # <<>> /\ attempts[i].match_method = method})

CountsAgree ==
    /\ hash_match_count = MethodCount("hash")
    /\ name_match_count = MethodCount("name")
    /\ match_count = name_match_count + hash_match_count

\* C29: a pair is counted as 'hash' only if the similarity of the target to
\* the source media file reached similarity_threshold, as 'name' only if a
\* name lookup found it, and match_count = name_match_count + hash_match_count
C29_MethodNamesTheStep ==
    lastOp = "record" =>
        /\ \A i \in 1..Len(attempts) :
              /\ attempts[i].match_method = "hash" => ReachedThreshold(attempts[i])
              /\ attempts[i].match_method = "name" => FoundByNameLookup(attempts[i])
        /\ CountsAgree

\* C29, as the code has it: a pair counted as 'hash' was returned by
\* find_matching_file_by_hash, for the name of the source media file or for
\* a similarity that reached the threshold
C29_HashMeansReturnedByHashStep ==
    lastOp = "record" =>
        /\ \A i \in 1..Len(attempts) :
              /\ attempts[i].match_method = "hash" =>
                    NamedLikeMedia(attempts[i]) \/ ReachedThreshold(attempts[i])
              /\ attempts[i].match_method = "name" => FoundByNameLookup(attempts[i])
        /\ CountsAgree

\* a pair was counted as 'hash' for the name of the source media file, its
\* picture being another one
C29_Witness ==
    /\ lastOp = "record"
    /\ hash_match_count = 1 /\ name_match_count = 0 /\ match_count = 1
    /\ \E i \in 1..Len(attempts) :
          /\ attempts[i].match_method = "hash"
          /\ NamedLikeMedia(attempts[i])
          /\ ~ReachedThreshold(attempts[i])

====
